---- MODULE Spec2Model ----
(***************************************************************************)
(* Verification model of the endgame search core: the crossword-game       *)
(* mechanics (PlayMove / UnplayLastMove), the Zobrist hasher, the          *)
(* transposition table and the iterative-deepening negamax solver with its *)
(* Lazy-SMP variant.                                                       *)
(***************************************************************************)
EXTENDS Integers, Sequences, FiniteSets, TLC

(***************************************************************************)
(* Bounds of the model.                                                    *)
(***************************************************************************)
\* number of squares of the (single-row) board; squares are 0..BoardDim-1
BoardDim == 4
\* letters are 1..NumLetters; machine letter 0 is the blank / empty marker
NumLetters == 2
\* largest ply budget handed to Solve
MaxPlies == 3
\* number of buckets of the transposition table
TableSize == 8
\* largest number of search threads
MaxThreads == 2
\* the number of stores made in a run of table accesses
MaxStores == 2

(***************************************************************************)
(* Program constants.                                                      *)
(***************************************************************************)
HugeNumber == 32767
EarlyPassOffset == 21000
HashMoveOffset == 6000
\* iterativelyDeepenLazySMP refuses fewer plies
MinLazySMPPlies == 2
\* scoreless turns that end the game while the solver has put the game in
\* endgame mode (Solve, SetEndgameMode(true))
EndgameMaxScorelessTurns == 2

Letters == 1..NumLetters
Squares == 0..(BoardDim - 1)
Players == {0, 1}

Max(a, b) == IF a >= b THEN a ELSE b
Min(a, b) == IF a <= b THEN a ELSE b

RECURSIVE SumOver(_, _)
\* sum of f[x] over the finite set S
SumOver(S, f) ==
    IF S = {} THEN 0
    ELSE LET x == CHOOSE y \in S : TRUE IN f[x] + SumOver(S \ {x}, f)

(***************************************************************************)
(* Racks, letter values, moves.                                            *)
(***************************************************************************)
\* A rack is its LetArr: letter index -> count (index 0 is the blank).
EmptyRack == [l \in 0..NumLetters |-> 0]

RackOf(tiles) ==
    [l \in 0..NumLetters |-> Cardinality({i \in DOMAIN tiles : tiles[i] = l})]

NumTiles(rack) == SumOver(DOMAIN rack, rack)

\* letter distribution: the point value of a letter
LetterScore(l) == IF l = 0 THEN 0 ELSE 2 * l - 1

\* Rack.ScoreOn
ScoreOn(rack) == SumOver(DOMAIN rack, [l \in DOMAIN rack |-> rack[l] * LetterScore(l)])

MoveTypePlay == "play"
MoveTypeExchange == "exchange"
MoveTypePass == "pass"

\* move.NewPassMove
PassMove(rack) ==
    [action |-> MoveTypePass, score |-> 0, tiles |-> << >>, leave |-> rack,
     rowStart |-> 0, colStart |-> 0, vertical |-> FALSE, tilesPlayed |-> 0]

\* move.NewExchangeMove
ExchangeMove(tiles, leave) ==
    [action |-> MoveTypeExchange, score |-> 0, tiles |-> tiles, leave |-> leave,
     rowStart |-> 0, colStart |-> 0, vertical |-> FALSE,
     tilesPlayed |-> Len(tiles)]

\* Move.TilesPlayed
TilesPlayed(m) == m.tilesPlayed

(***************************************************************************)
(* Game state (XWordGame).  The state stack holds the backed-up states of  *)
(* the moves played and not yet undone; stackPtr is its length.            *)
(***************************************************************************)
NoStack == << >>

Backup(g) ==
    [board |-> g.board, bag |-> g.bag, playing |-> g.playing,
     scorelessTurns |-> g.scorelessTurns,
     lastScorelessTurns |-> g.lastScorelessTurns,
     racks |-> g.racks, points |-> g.points, onturn |-> g.onturn]

\* a backup that does not copy the count of scoreless turns
backupStateNoScoreless(g) ==
    [g EXCEPT !.stateStack = Append(@, [Backup(g) EXCEPT !.scorelessTurns = 0])]

\* XWordGame.backupState
backupState(g) == [g EXCEPT !.stateStack = Append(@, Backup(g))]

StackPtr(g) == Len(g.stateStack)

\* XWordGame.calculateRackPts
calculateRackPts(g, p) == ScoreOn(g.racks[p])

\* a draw of n tiles that hands over one tile at most
DrawAtMostOne(bag, n) == SubSeq(bag, 1, Min(Min(n, 1), Len(bag)))

\* Bag.DrawAtMost: the first min(n, remaining) tiles of the bag
DrawAtMost(bag, n) == SubSeq(bag, 1, Min(n, Len(bag)))

BagAfterDraw(bag, n) == SubSeq(bag, Min(n, Len(bag)) + 1, Len(bag))

\* Bag.Exchange: as many tiles are drawn as are handed in, and the tiles
\* handed in are put back; the order PutBack's shuffle leaves is settled
\* by BagOrders
BagExchangeDrew(bag, tiles) == SubSeq(bag, 1, Len(tiles))

BagAfterExchange(bag, tiles) == SubSeq(bag, Len(tiles) + 1, Len(bag)) \o tiles

\* GameBoard.PlayMove: put the tiles of the move on the squares they name
BoardPlayMove(board, m) ==
    [s \in Squares |->
        IF /\ s >= m.colStart
           /\ s < m.colStart + Len(m.tiles)
           /\ m.tiles[s - m.colStart + 1] # 0
        THEN m.tiles[s - m.colStart + 1]
        ELSE board[s]]

AddRack(r1, r2) == [l \in DOMAIN r1 |-> r1[l] + r2[l]]

\* the move-type switch of PlayMove
PlayMoveSwitch(g, m) ==
    IF m.action = MoveTypePlay
    THEN LET drew == DrawAtMost(g.bag, TilesPlayed(m))
             rack == AddRack(RackOf(drew), m.leave)
             out  == NumTiles(rack) = 0
             unplayedPts == calculateRackPts(g, (g.onturn + 1) % 2) * 2
         IN [g EXCEPT
                !.board = BoardPlayMove(g.board, m),
                !.scorelessTurns = IF m.score # 0 THEN 0 ELSE @,
                !.bag = BagAfterDraw(g.bag, TilesPlayed(m)),
                !.racks[g.onturn] = rack,
                !.playing = IF out THEN FALSE ELSE @,
                !.points[g.onturn] =
                    @ + m.score + (IF out THEN unplayedPts ELSE 0)]
    ELSE IF m.action = MoveTypeExchange
    THEN [g EXCEPT
             !.bag = BagAfterExchange(g.bag, m.tiles),
             !.racks[g.onturn] =
                 AddRack(RackOf(BagExchangeDrew(g.bag, m.tiles)), m.leave),
             !.scorelessTurns = @ + 1]
    ELSE [g EXCEPT !.scorelessTurns = @ + 1]

\* the end of the game by scoreless turns, and the change of turn
PlayMoveFinish(g0, g) ==
    LET ended == g.scorelessTurns = g.maxScorelessTurns
    IN [g EXCEPT
           !.playing = IF ended THEN FALSE ELSE @,
           !.points = IF ended
                      THEN [p \in Players |-> g.points[p] - calculateRackPts(g, p)]
                      ELSE @,
           !.lastScorelessTurns = g0.scorelessTurns,
           !.onturn = (g.onturn + 1) % 2,
           !.turnnum = @ + 1]

\* XWordGame.PlayMove
PlayMove(g, m, backup) ==
    LET g1 == IF backup THEN backupState(g) ELSE g
    IN PlayMoveFinish(g, PlayMoveSwitch(g1, m))

\* an undo that leaves the points of the undone move in place
UnplayLastMoveKeepsPoints(g) ==
    LET b == g.stateStack[StackPtr(g)]
    IN [g EXCEPT
           !.stateStack = SubSeq(@, 1, StackPtr(g) - 1),
           !.turnnum = @ - 1,
           !.onturn = (g.onturn + 1) % 2,
           !.board = b.board,
           !.bag = b.bag,
           !.playing = b.playing,
           !.racks = b.racks,
           !.scorelessTurns = b.scorelessTurns,
           !.lastScorelessTurns = b.lastScorelessTurns]

\* XWordGame.UnplayLastMove
UnplayLastMove(g) ==
    LET b == g.stateStack[StackPtr(g)]
    IN [g EXCEPT
           !.stateStack = SubSeq(@, 1, StackPtr(g) - 1),
           !.turnnum = @ - 1,
           !.onturn = (g.onturn + 1) % 2,
           !.board = b.board,
           !.bag = b.bag,
           !.playing = b.playing,
           !.racks = b.racks,
           !.points = b.points,
           !.scorelessTurns = b.scorelessTurns,
           !.lastScorelessTurns = b.lastScorelessTurns]

\* XWordGame.SpreadFor
SpreadFor(g, p) == g.points[p] - g.points[(p + 1) % 2]

\* XWordGame.CurrentSpread
CurrentSpread(g) == SpreadFor(g, g.onturn)

(***************************************************************************)
(* Move generation: every legal placement plus a pass.  A placement adds   *)
(* tiles of the rack at the two ends of the run of tiles on the row; its   *)
(* tiles span the whole word, 0 marking a square played through, and it    *)
(* scores the letter values of the word.                                   *)
(***************************************************************************)
Occupied(board) == {s \in Squares : board[s] # 0}

MinOf(S) == CHOOSE x \in S : \A y \in S : x <= y
MaxOf(S) == CHOOSE x \in S : \A y \in S : x >= y

\* the ways to put n tiles of the rack down, as sequences of letters
Assignments(rack, n) ==
    {s \in [1..n -> Letters] :
        \A l \in Letters : Cardinality({i \in 1..n : s[i] = l}) <= rack[l]}

\* the play that puts a tiles left and b tiles right of the run lo..hi
MakePlay(g, lo, hi, a, b, s) ==
    LET start == lo - a
        len   == (hi + b) - start + 1
        tiles == [k \in 1..len |->
                    LET sq == start + k - 1
                    IN IF sq < lo THEN s[sq - start + 1]
                       ELSE IF sq > hi THEN s[a + (sq - hi)]
                       ELSE 0]
        word  == [k \in 1..len |->
                    IF tiles[k] # 0 THEN tiles[k] ELSE g.board[start + k - 1]]
        played == RackOf(s)
    IN [action |-> MoveTypePlay,
        score |-> SumOver(1..len, [k \in 1..len |-> LetterScore(word[k])]),
        tiles |-> tiles,
        leave |-> [l \in 0..NumLetters |-> g.racks[g.onturn][l] - played[l]],
        rowStart |-> 0, colStart |-> start, vertical |-> FALSE,
        tilesPlayed |-> a + b]

\* the lexicon: the words in which no letter stands next to itself
ValidWord(board) ==
    \A s \in 0..(BoardDim - 2) :
        (board[s] # 0 /\ board[s + 1] # 0) => board[s] # board[s + 1]

\* MoveGenerator.GenAll with the pass generated (SetGenPass(true)): the
\* pass and every placement that makes a word of the lexicon
GenAll(g) ==
    LET rack == g.racks[g.onturn]
        occ  == Occupied(g.board)
        lo   == MinOf(occ)
        hi   == MaxOf(occ)
        n    == NumTiles(rack)
        plays == IF occ = {} THEN {}
                 ELSE UNION {
                        {MakePlay(g, lo, hi, ab[1], ab[2], s) :
                             s \in Assignments(rack, ab[1] + ab[2])} :
                        ab \in {x \in (0..lo) \X (0..(BoardDim - 1 - hi)) :
                                   x[1] + x[2] >= 1 /\ x[1] + x[2] <= n}}
    IN {PassMove(rack)} \cup {m \in plays : ValidWord(BoardPlayMove(g.board, m))}

(***************************************************************************)
(* Zobrist hasher.  A key is the XOR of independent random 64-bit numbers, *)
(* one per table cell; it is modelled by the set of the cells XORed in an  *)
(* odd number of times, so that XOR is the symmetric difference.           *)
(***************************************************************************)
Xor(k1, k2) == (k1 \ k2) \cup (k2 \ k1)

posTable(sq, tile) == {<<"pos", sq, tile>>}
maxRackTable(l, ct) == {<<"maxRack", l, ct>>}
minRackTable(l, ct) == {<<"minRack", l, ct>>}
scorelessTurnsKey(n) == {<<"scoreless", n>>}
minimizingPlayerToMoveKey == {<<"minToMove">>}

RECURSIVE XorAll(_)
\* XOR fold of a set of keys
XorAll(KS) ==
    IF KS = {} THEN {}
    ELSE LET k == CHOOSE x \in KS : TRUE IN Xor(k, XorAll(KS \ {k}))

\* Zobrist.Hash
Hash(squares, maxPlayerRack, minPlayerRack, minimizingPlayerToMove) ==
    LET k1 == XorAll({posTable(i, squares[i]) : i \in {s \in Squares : squares[s] # 0}})
        k2 == Xor(k1, XorAll({maxRackTable(i, maxPlayerRack[i]) : i \in DOMAIN maxPlayerRack}))
        k3 == Xor(k2, XorAll({minRackTable(i, minPlayerRack[i]) : i \in DOMAIN minPlayerRack}))
        k4 == IF minimizingPlayerToMove THEN Xor(k3, minimizingPlayerToMoveKey) ELSE k3
    IN \* assume 0 scoreless turns at the beginning
       Xor(k4, scorelessTurnsKey(0))

RECURSIVE PlayRackTiles(_, _, _, _, _)
\* the loop of AddMove that "plays" the tiles of the move off the
\* placeholder rack, from tile number i on
PlayRackTiles(key, tiles, i, placeholderRack, maxPlayer) ==
    IF i > Len(tiles) THEN key
    ELSE IF tiles[i] = 0 THEN PlayRackTiles(key, tiles, i + 1, placeholderRack, maxPlayer)
    ELSE LET tileIdx == tiles[i]
             ct == placeholderRack[tileIdx]
             k1 == IF maxPlayer
                   THEN Xor(Xor(key, maxRackTable(tileIdx, ct)), maxRackTable(tileIdx, ct - 1))
                   ELSE Xor(Xor(key, minRackTable(tileIdx, ct)), minRackTable(tileIdx, ct - 1))
         IN PlayRackTiles(k1, tiles, i + 1,
                          [placeholderRack EXCEPT ![tileIdx] = ct - 1], maxPlayer)

\* AddMove that leaves the key of the previous scoreless-turn count in
AddMoveKeepsLastScoreless(key, m, maxPlayer, scorelessTurns, lastScorelessTurns) ==
    LET k1 == IF m.action = MoveTypePlay
              THEN LET kp == Xor(key, XorAll({posTable(m.rowStart * BoardDim + m.colStart + (idx - 1),
                                                       m.tiles[idx]) :
                                              idx \in {i \in DOMAIN m.tiles : m.tiles[i] # 0}}))
                       placeholderRack == AddRack(RackOf(m.tiles), m.leave)
                   IN PlayRackTiles(kp, m.tiles, 1, [placeholderRack EXCEPT ![0] = m.leave[0]], maxPlayer)
              ELSE key
        k3 == Xor(k1, scorelessTurnsKey(scorelessTurns))
    IN Xor(k3, minimizingPlayerToMoveKey)

\* Zobrist.AddMove
AddMove(key, m, maxPlayer, scorelessTurns, lastScorelessTurns) ==
    LET k1 == IF m.action = MoveTypePlay
              THEN LET kp == Xor(key, XorAll({posTable(m.rowStart * BoardDim + m.colStart + (idx - 1),
                                                       m.tiles[idx]) :
                                              idx \in {i \in DOMAIN m.tiles : m.tiles[i] # 0}}))
                       placeholderRack == AddRack(RackOf(m.tiles), m.leave)
                   IN PlayRackTiles(kp, m.tiles, 1, [placeholderRack EXCEPT ![0] = m.leave[0]], maxPlayer)
              ELSE key
        k2 == Xor(k1, scorelessTurnsKey(lastScorelessTurns))
        k3 == Xor(k2, scorelessTurnsKey(scorelessTurns))
    IN Xor(k3, minimizingPlayerToMoveKey)

(***************************************************************************)
(* Start positions: an empty bag, one or two tiles on the board, two racks. *)
(***************************************************************************)
NewGame(board, racks, points, onturn, scoreless) ==
    [board |-> board, bag |-> << >>, racks |-> racks, points |-> points,
     onturn |-> onturn, turnnum |-> 0, playing |-> TRUE,
     scorelessTurns |-> scoreless, lastScorelessTurns |-> 0,
     maxScorelessTurns |-> EndgameMaxScorelessTurns,
     stateStack |-> NoStack]

StartBoards ==
    {[s \in Squares |-> IF s = c THEN 1 ELSE IF two /\ s = c + 1 THEN 2 ELSE 0] :
        c \in {0, 1}, two \in BOOLEAN}

StartRackPairs ==
    {<<RackOf(<<1, 2>>), RackOf(<<1, 2>>)>>,
     <<RackOf(<<1, 1, 2>>), RackOf(<<2>>)>>,
     <<RackOf(<<2, 2>>), RackOf(<<1, 1>>)>>,
     <<RackOf(<<1, 2, 2>>), RackOf(<<1, 1, 2>>)>>}

StartPoints == {<<0, 0>>, <<0, 4>>}

StartStates ==
    {NewGame(b, [p \in Players |-> rp[p + 1]], [p \in Players |-> pts[p + 1]], 0, sl) :
        b \in StartBoards, rp \in StartRackPairs, pts \in StartPoints, sl \in {0, 1}}

(***************************************************************************)
(* Compact moves.  A tiny move names the squares and tiles of a play; the  *)
(* leave is rebuilt from the rack when it is turned into a full move.  A   *)
(* small move is a move with the estimated value used to order it.         *)
(***************************************************************************)
InvalidTinyMove ==
    [action |-> "invalid", score |-> 0, tiles |-> << >>,
     rowStart |-> 0, colStart |-> 0, vertical |-> FALSE, tilesPlayed |-> 0]

\* SmallMove.TinyMove
TinyMove(m) ==
    [action |-> m.action, score |-> m.score, tiles |-> m.tiles,
     rowStart |-> m.rowStart, colStart |-> m.colStart, vertical |-> m.vertical,
     tilesPlayed |-> m.tilesPlayed]

\* conversions.TinyMoveToFullMove returns an error for a move that cannot be
\* rebuilt: tiles that are not on the rack, or squares that are off the
\* board or taken
CanRebuild(tm, g, rack) ==
    \/ tm.action = MoveTypePass
    \/ /\ tm.action = MoveTypePlay
       /\ LET played == [RackOf(tm.tiles) EXCEPT ![0] = 0]
          IN \A l \in DOMAIN rack : played[l] <= rack[l]
       /\ \A i \in DOMAIN tm.tiles :
             /\ tm.colStart + i - 1 \in Squares
             /\ tm.tiles[i] # 0 => g.board[tm.colStart + i - 1] = 0

\* conversions.TinyMoveToFullMove
TinyMoveToFullMove(tm, g, rack) ==
    LET played == [RackOf(tm.tiles) EXCEPT ![0] = 0]
    IN [action |-> tm.action, score |-> tm.score, tiles |-> tm.tiles,
        leave |-> [l \in DOMAIN rack |-> rack[l] - played[l]],
        rowStart |-> tm.rowStart, colStart |-> tm.colStart,
        vertical |-> tm.vertical, tilesPlayed |-> tm.tilesPlayed]

SmallMove(m, est) == [m |-> m, estimatedValue |-> est]

NoSmallMove == SmallMove(PassMove(EmptyRack), 0)

(***************************************************************************)
(* Principal variation line.                                               *)
(***************************************************************************)
EmptyPV == [moves |-> << >>, score |-> 0]

\* PVLine.Update
PVUpdate(m, newPVLine, score) ==
    [moves |-> <<m>> \o newPVLine.moves, score |-> score]

(***************************************************************************)
(* Transposition table: a flat array of buckets, one entry each.  An entry *)
(* holds the verification hash of the key it was stored under, the         *)
(* spread-relative score, the flag-and-depth byte and the best move.       *)
(* bestValue, ourSpread and g record, for the analysis only, the value and *)
(* the on-turn spread the score was computed from and the position it was  *)
(* computed for.                                                           *)
(***************************************************************************)
NoGame ==
    NewGame([s \in Squares |-> 0], [p \in Players |-> EmptyRack],
            [p \in Players |-> 0], 0, 0)

TTExact == 0
TTLower == 1
TTUpper == 2
TTInvalid == 3

FlagAndDepth(flag, depth) == flag * 64 + depth

\* TableEntry.flag: the top two bits
EntryFlag(e) == e.flagAndDepth \div 64

\* TableEntry.depth: the low six bits
EntryDepth(e) == e.flagAndDepth % 64

\* TableEntry.valid
EntryValid(e) == EntryFlag(e) # TTInvalid

InvalidEntry ==
    [hash |-> {}, score |-> 0, flagAndDepth |-> FlagAndDepth(TTInvalid, 0),
     play |-> InvalidTinyMove, bestValue |-> 0, ourSpread |-> 0, g |-> NoGame]

\* the number a table cell's key contributes to the bucket address
CellNum(c) ==
    IF c[1] = "pos" THEN 3 + 5 * c[2] + 11 * c[3]
    ELSE IF c[1] = "maxRack" THEN 7 + 13 * c[2] + 17 * c[3]
    ELSE IF c[1] = "minRack" THEN 19 + 23 * c[2] + 29 * c[3]
    ELSE IF c[1] = "scoreless" THEN 31 + 37 * c[2]
    ELSE 41

\* idx = hash mod E
BucketOf(key) == SumOver(key, [c \in key |-> CellNum(c)]) % TableSize

\* TranspositionTable.Reset
ResetTable == [i \in 0..(TableSize - 1) |-> InvalidEntry]

\* a lookup that returns the entry of the bucket whatever its hash
TTLookupUnverified(table, key) == table[BucketOf(key)]

\* TranspositionTable.lookup: a miss unless the verification hash matches
TTLookup(table, key) ==
    LET e == table[BucketOf(key)]
    IN IF e.hash = key THEN e ELSE InvalidEntry

\* the first word of a store: the verification hash
TTStoreHash(table, key, entry) ==
    [table EXCEPT ![BucketOf(key)].hash = key]

\* a store that keeps the body of a deeper entry of the bucket
TTStoreBodyKeepsDeeper(table, key, entry) ==
    LET old == table[BucketOf(key)]
    IN IF EntryValid(old) /\ EntryDepth(old) > EntryDepth(entry)
       THEN table
       ELSE [table EXCEPT ![BucketOf(key)] = [entry EXCEPT !.hash = old.hash]]

\* the second word of a store: score, flag and depth, and move
TTStoreBody(table, key, entry) ==
    [table EXCEPT ![BucketOf(key)] = [entry EXCEPT !.hash = table[BucketOf(key)].hash]]

\* TranspositionTable.store: always replaces the entry of the bucket
TTStore(table, key, entry) ==
    TTStoreBody(TTStoreHash(table, key, entry), key, entry)

\* a Solve that leaves the table in single-threaded mode
TableModeAlwaysSingle(lazySMPOptim) == "single"

\* the access mode Solve puts the table in
TableMode(lazySMPOptim) == IF lazySMPOptim THEN "multi" ELSE "single"

RECURSIVE PowerOfTwoAtLeast(_, _)
PowerOfTwoAtLeast(n, p) == IF p >= n THEN p ELSE PowerOfTwoAtLeast(n, 2 * p)

\* S stripes, a power of two not below the number of threads
NumStripes(threads) == PowerOfTwoAtLeast(threads, 1)

\* stripe = idx mod S
StripeOf(idx, threads) == idx % NumStripes(threads)

VARIABLES
    runs,            \* two move sequences played from one start position,
                     \* each with the key maintained incrementally by AddMove
    game,            \* per thread: s.game (thread 0) and s.gameCopies
    frames,          \* per thread: the stack of negamax calls in progress
    ret,             \* per thread: what the root negamax call returned
    initialMoves,    \* per thread: s.initialMoves[t], the root move list
    currentIDDepths, \* per thread: s.currentIDDepths[t]
    ttable,          \* the shared transposition table
    solver,          \* the solver's options, results and position in Solve
    ctx,             \* per thread: is the context of the search cancelled
    probe,           \* the last transposition-table entry a probe used
    access,          \* table accesses made one word at a time: the store in
                     \* progress of each thread, the last lookup, the
                     \* stripe locks, and the record of the completed stores
    peg              \* the pre-endgame solver: its options, its candidate
                     \* plays and the job in progress

vars == <<runs, game, frames, ret, initialMoves, currentIDDepths, ttable,
          solver, ctx, probe, access, peg>>

searchVars == <<game, frames, ret, initialMoves, currentIDDepths, ttable,
                solver, ctx, probe, access, peg>>


\* the key of the root, as iterativelyDeepen computes it
RootKey(g, solvingPlayer) ==
    Hash(g.board, g.racks[solvingPlayer], g.racks[1 - solvingPlayer], FALSE)

\* the key of a state hashed from scratch
StateKey(g, solvingPlayer) ==
    Hash(g.board, g.racks[solvingPlayer], g.racks[1 - solvingPlayer],
         g.onturn # solvingPlayer)

\* the key of the child reached by m, as negamax computes it after the play
ChildKey(nodeKey, m, onTurn, solvingPlayer, gAfter) ==
    AddMove(nodeKey, m, onTurn = solvingPlayer,
            gAfter.scorelessTurns, gAfter.lastScorelessTurns)

(***************************************************************************)
(* The solver.                                                             *)
(***************************************************************************)
Threads == 0..(MaxThreads - 1)

NoRet == [set |-> FALSE, value |-> 0, err |-> FALSE, pv |-> EmptyPV, kind |-> "none"]
\* what a negamax call returns: the value, the error (kind says which: the
\* error of the context or that of a move that cannot be rebuilt) and the PV
Returned(value, err, pv) ==
    [set |-> TRUE, value |-> value, err |-> err, pv |-> pv,
     kind |-> IF err THEN "canceled" ELSE "none"]
ReturnedError(kind) ==
    [set |-> TRUE, value |-> 0, err |-> TRUE, pv |-> EmptyPV, kind |-> kind]

NoProbe == [hit |-> FALSE]

NoOp == [kind |-> "idle"]
NoGot == [set |-> FALSE]
NoLast == [set |-> FALSE]

\* no pre-endgame solve under way
NoPeg == [pc |-> "idle"]

NoAccess ==
    [op |-> [t \in Threads |-> NoOp],
     locks |-> [i \in 0..(TableSize - 1) |-> -1],
     got |-> NoGot,
     last |-> [i \in 0..(TableSize - 1) |-> NoLast],
     stored |-> {},
     count |-> 0]

\* Solver.Init and the options set before Solve
NewSolver(threads, tt, id, plies, tieBreak) ==
    [threads |-> threads, tieBreak |-> tieBreak, lazySMPOptim |-> threads >= 2,
     transpositionTableOptim |-> tt, iterativeDeepeningOptim |-> id,
     firstWinOptim |-> FALSE, earlyPassOptim |-> TRUE,
     principalVariation |-> EmptyPV, bestPVValue |-> 0,
     initialSpread |-> 0, solvingPlayer |-> 0, requestedPlies |-> plies,
     p |-> 0, completed |-> 0, pc |-> "start", err |-> "none",
     canceledMid |-> FALSE, helpers |-> [t \in Threads \ {0} |-> "idle"],
     reference |-> [bestV |-> 0, bestSeq |-> << >>, err |-> "none"],
     atCall |-> NoGame,
     result |-> [bestV |-> 0, bestSeq |-> << >>, err |-> "none"]]

IdleSearch ==
    /\ game = [t \in Threads |-> NoGame]
    /\ frames = [t \in Threads |-> << >>]
    /\ ret = [t \in Threads |-> NoRet]
    /\ initialMoves = [t \in Threads |-> << >>]
    /\ currentIDDepths = [t \in Threads |-> 0]
    /\ ttable = ResetTable
    /\ solver = NewSolver(1, FALSE, TRUE, 0, 1)
    /\ ctx = [t \in Threads |-> FALSE]
    /\ probe = NoProbe
    /\ access = NoAccess

\* the estimate of assignEstimates for one move
Estimate(g, m, depth, ttMove, earlyPassOptim) ==
    LET stmRack == g.racks[g.onturn]
        otherRack == g.racks[(g.onturn + 1) % 2]
        numTilesOnRack == NumTiles(stmRack)
        lastMoveWasPass == g.scorelessTurns > g.lastScorelessTurns
        base == IF TilesPlayed(m) = numTilesOnRack
                THEN m.score + 2 * ScoreOn(otherRack)
                ELSE IF depth > 2 THEN m.score + 3 * TilesPlayed(m)
                ELSE m.score
        hash == IF TinyMove(m) = ttMove THEN HashMoveOffset ELSE 0
        early == IF earlyPassOptim /\ lastMoveWasPass /\ m.action = MoveTypePass
                 THEN EarlyPassOffset ELSE 0
    IN base + hash + early

RECURSIVE Pow(_, _)
Pow(b, n) == IF n = 0 THEN 1 ELSE b * Pow(b, n - 1)

\* a number that tells the moves of one position apart
MoveCode(m) ==
    IF m.action = MoveTypePass THEN 0
    ELSE 1 + m.colStart
         + BoardDim * SumOver(DOMAIN m.tiles,
                              [i \in DOMAIN m.tiles |->
                                  m.tiles[i] * Pow(NumLetters + 1, i - 1)])

\* does small move x come before small move y: by greater estimate; the
\* order of moves of equal estimate is not fixed by sort.Slice, and the
\* solver's tieBreak stands for the way the sort resolves it
Before(x, y, tieBreak) ==
    \/ x.estimatedValue > y.estimatedValue
    \/ /\ x.estimatedValue = y.estimatedValue
       /\ tieBreak * MoveCode(x.m) <= tieBreak * MoveCode(y.m)

RECURSIVE SortedOrder(_, _)
\* sort.Slice by estimated value, descending
SortedOrder(S, tieBreak) ==
    IF S = {} THEN << >>
    ELSE LET x == CHOOSE z \in S : \A y \in S : Before(z, y, tieBreak)
         IN <<x>> \o SortedOrder(S \ {x}, tieBreak)

SeqToSet(q) == {q[i] : i \in DOMAIN q}

\* Solver.assignEstimates on the moves generated at a node
assignEstimates(g, moves, depth, ttMove) ==
    SortedOrder({SmallMove(m, Estimate(g, m, depth, ttMove, solver.earlyPassOptim)) :
                    m \in moves}, solver.tieBreak)

\* the search window of the root
RootAlpha == IF solver.firstWinOptim THEN -1 ELSE -HugeNumber
RootBeta == IF solver.firstWinOptim THEN 1 ELSE HugeNumber

\* the flag negamax stores with a value
StoreFlag(bestValue, alphaOrig, beta) ==
    IF bestValue <= alphaOrig THEN TTUpper
    ELSE IF bestValue >= beta THEN TTLower
    ELSE TTExact

\* a store of the value as it is, with the spread in it
StoredScoreWithSpread(bestValue, ourSpread) == bestValue

\* the score negamax stores: the value without the on-turn spread
StoredScore(bestValue, ourSpread) == bestValue - ourSpread

\* the score a probe uses: the stored score with the on-turn spread added
ProbedScore(entry, ourSpread) == entry.score + ourSpread

\* may a probe use the entry at this depth
ProbeUsable(entry, depth) == EntryValid(entry) /\ EntryDepth(entry) >= depth

\* a comparison that forgets to negate the value of the child
BetterUnnegated(value, bestValue) == value > bestValue

\* is the child value an improvement at the parent
Better(value, bestValue) == -value > bestValue

\* the beta cut-off test
BetaCutoff(bestValue, beta) == bestValue >= beta

\* the leaf test of negamax
IsLeaf(g, depth) == depth = 0 \/ ~g.playing

\* a cutoff at the table that hands the PV back as it was
TTCutoffPVEmpty(child, score) == EmptyPV

\* the PV of a cutoff at the table: pv.numMoves is 0 at the entry of every
\* call (the caller hands in a new line, or one it has cleared), so that the
\* move of the entry is put in with an empty line after it
TTCutoffPV(child, score) == PVUpdate(child, EmptyPV, score)

\* negamax from its entry to the generation of the children: the context
\* check, the transposition-table probe and the leaf test.  The result is
\* either the return of the call or the window and hash move to search with.
NodeEntry(t, g, nodeKey, depth, alpha, beta) ==
    LET onTurn == g.onturn
        ourSpread == SpreadFor(g, onTurn)
        ttEntry == IF solver.transpositionTableOptim
                   THEN TTLookup(ttable, nodeKey) ELSE InvalidEntry
        usable == solver.transpositionTableOptim /\ ProbeUsable(ttEntry, depth)
        score == ProbedScore(ttEntry, ourSpread)
        flag == EntryFlag(ttEntry)
        a1 == IF usable /\ flag = TTLower THEN Max(alpha, score) ELSE alpha
        b1 == IF usable /\ flag = TTUpper THEN Min(beta, score) ELSE beta
        cutoff == usable /\ (flag = TTExact \/ a1 >= b1)
        ttPV == TTCutoffPV(TinyMoveToFullMove(ttEntry.play, g, g.racks[onTurn]),
                           score)
        hit == [hit |-> TRUE, thread |-> t, entry |-> ttEntry,
                ourSpread |-> ourSpread, used |-> score, depth |-> depth,
                g |-> [g EXCEPT !.stateStack = NoStack]]
    IN IF ctx[t]
       THEN [kind |-> "ret", r |-> Returned(0, TRUE, EmptyPV), probe |-> NoProbe]
       ELSE IF cutoff /\ ~CanRebuild(ttEntry.play, g, g.racks[onTurn])
       THEN [kind |-> "ret", r |-> ReturnedError("decode"), probe |-> hit]
       ELSE IF cutoff
       THEN [kind |-> "ret", r |-> Returned(score, FALSE, ttPV), probe |-> hit]
       ELSE IF IsLeaf(g, depth)
       THEN [kind |-> "ret", r |-> Returned(SpreadFor(g, g.onturn), FALSE, EmptyPV),
             probe |-> IF usable THEN hit ELSE NoProbe]
       ELSE [kind |-> "open", alpha |-> a1, beta |-> b1, alphaOrig |-> alpha,
             ttMove |-> IF usable THEN ttEntry.play ELSE InvalidTinyMove,
             ourSpread |-> ourSpread, onTurn |-> onTurn, g |-> g,
             probe |-> IF usable THEN hit ELSE NoProbe]

\* the frame of a negamax call that goes on to search its children; entry
\* records, for the analysis only, the game state the call was entered with
NewFrame(e, nodeKey, depth, children) ==
    [nodeKey |-> nodeKey, depth |-> depth, alpha |-> e.alpha, beta |-> e.beta,
     entry |-> e.g,
     alphaOrig |-> e.alphaOrig, ourSpread |-> e.ourSpread, onTurn |-> e.onTurn,
     children |-> children, idx |-> 1, bestValue |-> -HugeNumber,
     bestMove |-> NoSmallMove, pv |-> EmptyPV, pc |-> "loop"]

Top(stack) == stack[Len(stack)]
Pop(stack) == SubSeq(stack, 1, Len(stack) - 1)

RECURSIVE Deliver(_, _, _, _, _)
\* The return r of a child call reaches the caller on top of the stack: the
\* caller undoes the move, and either passes an error on to its own caller
\* or takes the value into account (best value, PV, root estimate, alpha,
\* beta cut-off) and moves on to its next child or to its end.  With an
\* empty stack the return is that of the root call.
Deliver(stack, g, im, idDepth, r) ==
    IF stack = << >>
    THEN [stack |-> stack, g |-> g, im |-> im, ret |-> r]
    ELSE LET f == Top(stack)
             g1 == UnplayLastMove(g)
         IN IF r.err
            THEN Deliver(Pop(stack), g1, im, idDepth,
                         [Returned(r.value, TRUE, f.pv) EXCEPT !.kind = r.kind])
            ELSE LET atRoot == idDepth = f.depth
                     children == IF atRoot THEN im ELSE f.children
                     better == Better(r.value, f.bestValue)
                     bestValue == IF better THEN -r.value ELSE f.bestValue
                     alpha == Max(f.alpha, bestValue)
                     cut == BetaCutoff(bestValue, f.beta)
                     last == f.idx = Len(children)
                     f1 == [f EXCEPT
                              !.bestValue = bestValue,
                              !.bestMove = IF better THEN children[f.idx] ELSE @,
                              !.pv = IF better
                                     THEN PVUpdate(children[f.idx].m, r.pv,
                                                   bestValue - solver.initialSpread)
                                     ELSE @,
                              !.alpha = alpha,
                              !.idx = IF cut \/ last THEN @ ELSE @ + 1,
                              !.pc = IF cut \/ last THEN "store" ELSE "loop"]
                 IN [stack |-> [stack EXCEPT ![Len(stack)] = f1],
                     g |-> g1,
                     im |-> IF atRoot
                            THEN [im EXCEPT ![f.idx].estimatedValue = -r.value]
                            ELSE im,
                     ret |-> NoRet]

\* the children of the frame on top of the stack of thread t
ChildrenOf(t, f) ==
    IF currentIDDepths[t] = f.depth THEN initialMoves[t] ELSE f.children

\* negamax plays the next child, computes its key and calls itself
Descend(t) ==
    /\ frames[t] # << >>
    /\ Top(frames[t]).pc = "loop"
    /\ LET f == Top(frames[t])
           child == ChildrenOf(t, f)[f.idx]
           g1 == PlayMove(game[t], child.m, TRUE)
           childKey == IF solver.transpositionTableOptim
                       THEN ChildKey(f.nodeKey, child.m, f.onTurn,
                                     solver.solvingPlayer, g1)
                       ELSE {}
           e == NodeEntry(t, g1, childKey, f.depth - 1, -f.beta, -f.alpha)
       IN /\ probe' = e.probe
          /\ IF e.kind = "ret"
             THEN LET d == Deliver(frames[t], g1, initialMoves[t],
                                   currentIDDepths[t], e.r)
                  IN /\ frames' = [frames EXCEPT ![t] = d.stack]
                     /\ game' = [game EXCEPT ![t] = d.g]
                     /\ initialMoves' = [initialMoves EXCEPT ![t] = d.im]
                     /\ ret' = [ret EXCEPT ![t] = d.ret]
             ELSE LET children == assignEstimates(g1, GenAll(g1), f.depth - 1, e.ttMove)
                  IN /\ frames' = [frames EXCEPT ![t] =
                            Append(@, NewFrame(e, childKey, f.depth - 1, children))]
                     /\ game' = [game EXCEPT ![t] = g1]
                     /\ UNCHANGED <<initialMoves, ret>>
    /\ UNCHANGED <<peg, access, runs, currentIDDepths, ttable, solver, ctx>>

\* the entry negamax stores at the end of a node
EntryToStore(f, g) ==
    [hash |-> {}, score |-> StoredScore(f.bestValue, f.ourSpread),
     flagAndDepth |-> FlagAndDepth(StoreFlag(f.bestValue, f.alphaOrig, f.beta), f.depth),
     play |-> TinyMove(f.bestMove.m),
     bestValue |-> f.bestValue, ourSpread |-> f.ourSpread,
     g |-> [g EXCEPT !.stateStack = NoStack]]

\* negamax ends a node: it stores the entry and returns the best value
Finish(t) ==
    /\ frames[t] # << >>
    /\ Top(frames[t]).pc = "store"
    /\ LET f == Top(frames[t])
           d == Deliver(Pop(frames[t]), game[t], initialMoves[t],
                        currentIDDepths[t], Returned(f.bestValue, FALSE, f.pv))
       IN /\ ttable' = IF solver.transpositionTableOptim
                       THEN TTStore(ttable, f.nodeKey, EntryToStore(f, game[t]))
                       ELSE ttable
          /\ frames' = [frames EXCEPT ![t] = d.stack]
          /\ game' = [game EXCEPT ![t] = d.g]
          /\ initialMoves' = [initialMoves EXCEPT ![t] = d.im]
          /\ ret' = [ret EXCEPT ![t] = d.ret]
    /\ probe' = NoProbe
    /\ UNCHANGED <<peg, access, runs, currentIDDepths, solver, ctx>>

\* the root call negamax(ctx, initialHashKey, depth, alpha, beta, &pv, t);
\* initialHashKey is the key of the root position, which the game of the
\* calling thread is in
CallRoot(t, depth) ==
    LET key == IF solver.transpositionTableOptim
               THEN RootKey(game[t], solver.solvingPlayer) ELSE {}
        e == NodeEntry(t, game[t], key, depth, RootAlpha, RootBeta)
    IN /\ probe' = e.probe
       /\ IF e.kind = "ret"
          THEN /\ ret' = [ret EXCEPT ![t] = e.r]
               /\ UNCHANGED frames
          ELSE /\ frames' = [frames EXCEPT ![t] = <<NewFrame(e, key, depth, << >>)>>]
               /\ ret' = [ret EXCEPT ![t] = NoRet]

\* Solve up to the first iteration of iterativelyDeepen: the table is reset,
\* the spread and the solving player are taken, the first layer of moves is
\* generated and ordered
SolveStart ==
    /\ solver.pc = "start"
    /\ ~solver.lazySMPOptim
    /\ initialMoves' = [initialMoves EXCEPT ![0] =
          assignEstimates(game[0], GenAll(game[0]), 0, InvalidTinyMove)]
    /\ ttable' = IF solver.transpositionTableOptim THEN ResetTable ELSE ttable
    /\ solver' = [solver EXCEPT
          !.solvingPlayer = game[0].onturn,
          !.initialSpread = CurrentSpread(game[0]),
          !.p = IF solver.iterativeDeepeningOptim THEN 1 ELSE solver.requestedPlies,
          !.pc = "iter"]
    /\ currentIDDepths' = [currentIDDepths EXCEPT ![0] = -1]
    /\ UNCHANGED <<peg, access, runs, game, frames, ret, ctx, probe>>

\* the body of the loop of iterativelyDeepen up to the call of negamax
IterStart ==
    /\ solver.pc = "iter"
    /\ ~solver.lazySMPOptim
    /\ solver.p <= solver.requestedPlies
    /\ currentIDDepths' = [currentIDDepths EXCEPT ![0] = solver.p]
    /\ CallRoot(0, solver.p)
    /\ solver' = [solver EXCEPT !.pc = "search"]
    /\ UNCHANGED <<peg, access, runs, game, initialMoves, ttable, ctx>>

\* what Solve returns once the search goroutine has ended with err
SolveResult(s, err) ==
    [bestV |-> s.bestPVValue, bestSeq |-> s.principalVariation.moves,
     err |-> IF err = "canceled" THEN "none" ELSE err]

\* a loop body that takes the PV and the value of the search before it
\* looks at the error
IterEndTakesPartial ==
    /\ solver.pc = "search"
    /\ ~solver.lazySMPOptim
    /\ frames[0] = << >>
    /\ ret[0].set
    /\ LET s0 == [solver EXCEPT
                    !.principalVariation = ret[0].pv,
                    !.bestPVValue = ret[0].value - solver.initialSpread]
       IN IF ret[0].err
          THEN /\ solver' = [s0 EXCEPT
                     !.pc = "done", !.err = ret[0].kind,
                     !.result = SolveResult(s0, ret[0].kind)]
               /\ UNCHANGED initialMoves
          ELSE /\ initialMoves' = [initialMoves EXCEPT ![0] =
                     SortedOrder(SeqToSet(initialMoves[0]), solver.tieBreak)]
               /\ LET s1 == [s0 EXCEPT !.completed = solver.p, !.p = @ + 1]
                  IN solver' = IF s1.p > solver.requestedPlies
                               THEN [s1 EXCEPT !.pc = "done",
                                               !.result = SolveResult(s1, "none")]
                               ELSE [s1 EXCEPT !.pc = "iter"]
    /\ ret' = [ret EXCEPT ![0] = NoRet]
    /\ probe' = NoProbe
    /\ UNCHANGED <<peg, access, runs, game, frames, currentIDDepths, ttable, ctx>>

\* the rest of the loop body: an error ends the search; otherwise the top
\* layer is sorted by value and the PV and best value are taken
IterEnd ==
    /\ solver.pc = "search"
    /\ ~solver.lazySMPOptim
    /\ frames[0] = << >>
    /\ ret[0].set
    /\ IF ret[0].err
       THEN /\ solver' = [solver EXCEPT
                  !.pc = "done", !.err = ret[0].kind,
                  !.result = SolveResult(solver, ret[0].kind)]
            /\ UNCHANGED initialMoves
       ELSE /\ initialMoves' = [initialMoves EXCEPT ![0] =
                  SortedOrder(SeqToSet(initialMoves[0]), solver.tieBreak)]
            /\ LET s1 == [solver EXCEPT
                            !.principalVariation = ret[0].pv,
                            !.bestPVValue = ret[0].value - solver.initialSpread,
                            !.completed = solver.p,
                            !.p = @ + 1]
               IN solver' = IF s1.p > solver.requestedPlies
                            THEN [s1 EXCEPT !.pc = "done",
                                            !.result = SolveResult(s1, "none")]
                            ELSE [s1 EXCEPT !.pc = "iter"]
    /\ ret' = [ret EXCEPT ![0] = NoRet]
    /\ probe' = NoProbe
    /\ UNCHANGED <<peg, access, runs, game, frames, currentIDDepths, ttable, ctx>>

\* the caller of Solve cancels the context; canceledMid records whether a
\* depth iteration was under way
Cancel ==
    /\ solver.pc \in {"iter", "search", "qdsearch"}
    /\ ~ctx[0]
    /\ ctx' = [t \in Threads |-> TRUE]
    /\ solver' = [solver EXCEPT !.canceledMid = (solver.pc = "search")]
    /\ UNCHANGED <<peg, access, runs, game, frames, ret, initialMoves, currentIDDepths,
                   ttable, probe>>

\* a single-threaded Solve of a start position, table on or off
InitSolve ==
    /\ runs = << >>
    /\ \E g \in StartStates, tt \in BOOLEAN, plies \in 1..MaxPlies,
          tieBreak \in {1, -1} :
          /\ game = [t \in Threads |-> g]
          /\ solver = NewSolver(1, tt, TRUE, plies, tieBreak)
    /\ frames = [t \in Threads |-> << >>]
    /\ ret = [t \in Threads |-> NoRet]
    /\ initialMoves = [t \in Threads |-> << >>]
    /\ currentIDDepths = [t \in Threads |-> 0]
    /\ ttable = ResetTable
    /\ ctx = [t \in Threads |-> FALSE]
    /\ probe = NoProbe
    /\ access = NoAccess
    /\ peg = NoPeg

NextSolve == SolveStart \/ IterStart \/ Descend(0) \/ Finish(0) \/ IterEnd

SpecSolve == InitSolve /\ [][NextSolve]_vars

\* the same Solve with a caller that may cancel the context
NextCancel == NextSolve \/ Cancel

SpecCancel == InitSolve /\ [][NextCancel]_vars

RECURSIVE Minimax(_, _)
\* the depth-d minimax value of a node: the on-turn spread at depth 0 or
\* when the game is over, else the greatest negated value of a child
Minimax(g, d) ==
    IF d = 0 \/ ~g.playing THEN SpreadFor(g, g.onturn)
    ELSE LET vals == {-Minimax(PlayMove(g, m, FALSE), d - 1) : m \in GenAll(g)}
         IN MaxOf(vals)

\* C1: with the table off and the full window, the value of every completed
\* iteration is the minimax value of the root at the depth of the iteration
NegamaxIsMinimax ==
    (/\ ~solver.transpositionTableOptim
     /\ solver.completed >= 1
     /\ frames[0] = << >>)
        => solver.bestPVValue + solver.initialSpread
              = Minimax(game[0], solver.completed)

\* a table-off search of two plies or more has completed, at a root whose
\* value depends on the depth
NegamaxIsMinimaxWitness ==
    /\ ~solver.transpositionTableOptim
    /\ solver.completed >= 2
    /\ frames[0] = << >>
    /\ solver.bestPVValue + solver.initialSpread # Minimax(game[0], 1)

\* C2: a single-threaded Solve with the table on returns the root score of
\* the Solve with the table off, which is the minimax value of the root at
\* the requested depth
TableOnSameScore ==
    (/\ solver.transpositionTableOptim
     /\ ~solver.lazySMPOptim
     /\ solver.pc = "done"
     /\ solver.err = "none")
        => solver.result.bestV + solver.initialSpread
              = Minimax(game[0], solver.requestedPlies)

(***************************************************************************)
(* Incremental hashing along two move sequences from the same start.       *)
(***************************************************************************)
InitHash ==
    /\ IdleSearch
    /\ peg = NoPeg
    /\ \E g \in {x \in StartStates : x.points[1] = 0} :
        runs = [r \in {1, 2} |->
                  [g |-> g, key |-> RootKey(g, g.onturn),
                   solvingPlayer |-> g.onturn, moves |-> 0]]

HashPlay(r) ==
    /\ runs[r].g.playing
    /\ \E m \in GenAll(runs[r].g) :
         LET g2 == PlayMove(runs[r].g, m, TRUE)
         IN runs' = [runs EXCEPT
                ![r].g = g2,
                ![r].key = ChildKey(runs[r].key, m, runs[r].g.onturn,
                                    runs[r].solvingPlayer, g2),
                ![r].moves = @ + 1]
    /\ UNCHANGED searchVars

NextHash == \E r \in {1, 2} : HashPlay(r)

SpecHash == InitHash /\ [][NextHash]_vars

\* C4: the key folded by AddMove along the moves played equals Hash of the
\* state reached (board, racks, side to move, scoreless-turn counter)
FoldEqualsHash ==
    \A r \in {1, 2} : runs[r].key = StateKey(runs[r].g, runs[r].solvingPlayer)

SamePosition(g1, g2) ==
    /\ g1.board = g2.board
    /\ g1.racks = g2.racks
    /\ g1.onturn = g2.onturn
    /\ g1.scorelessTurns = g2.scorelessTurns
    /\ g1.playing = g2.playing

\* C5: two move sequences from the same start that reach the same board,
\* racks, side to move and scoreless-turn count give the same key
PathIndependentKey ==
    SamePosition(runs[1].g, runs[2].g) => runs[1].key = runs[2].key

\* two different sequences, of different lengths and spreads, meet
PathIndependentKeyWitness ==
    /\ SamePosition(runs[1].g, runs[2].g)
    /\ runs[1].moves = 1
    /\ runs[2].moves = 3
    /\ SpreadFor(runs[1].g, 0) # SpreadFor(runs[2].g, 0)
    /\ runs[1].g.playing

\* C9: the score a probe uses is the stored best value less the on-turn
\* spread of the storing node plus the on-turn spread of the probing node,
\* and the value of the position moves by as much between the two baselines
SpreadRelativeScore ==
    (probe.hit /\ SamePosition(probe.entry.g, probe.g)) =>
        LET e == probe.entry
            d == EntryDepth(e)
        IN /\ probe.used = e.bestValue - e.ourSpread + probe.ourSpread
           /\ Minimax(probe.g, d) - Minimax(e.g, d) = probe.ourSpread - e.ourSpread

\* a probe uses an entry stored at another on-turn spread
SpreadRelativeScoreWitness ==
    /\ probe.hit
    /\ SamePosition(probe.entry.g, probe.g)
    /\ probe.entry.ourSpread # probe.ourSpread
    /\ probe.entry.ourSpread # 0

(***************************************************************************)
(* Lazy SMP: a single-threaded Solve, then SetThreads and a Solve of the   *)
(* same position with helper threads.  Each access to the shared table is  *)
(* one step of the thread that makes it.                                   *)
(***************************************************************************)
Helpers == Threads \ {0}

\* the depth helper t searches at in the iteration of depth p
HelperDepth(p, t) == p + (t % 3)

\* Solver.SetThreads after a single-threaded Solve has returned
SetThreads ==
    /\ solver.pc = "done"
    /\ ~solver.lazySMPOptim
    /\ solver' = [solver EXCEPT
          !.threads = MaxThreads,
          !.lazySMPOptim = MaxThreads >= 2,
          !.reference = solver.result,
          !.completed = 0,
          !.pc = "start"]
    /\ UNCHANGED <<peg, access, runs, game, frames, ret, initialMoves, currentIDDepths,
                   ttable, ctx, probe>>

\* Solve and iterativelyDeepenLazySMP up to the one-ply search of the main
\* thread: the table is reset, the game is copied for the helpers, the
\* first layer of moves is generated and ordered
SolveStartSMP ==
    /\ solver.pc = "start"
    /\ solver.lazySMPOptim
    /\ solver.transpositionTableOptim
    /\ solver.iterativeDeepeningOptim
    /\ solver.requestedPlies >= MinLazySMPPlies
    /\ game' = [t \in Threads |-> game[0]]
    /\ initialMoves' = [initialMoves EXCEPT ![0] =
          assignEstimates(game[0], GenAll(game[0]), 0, InvalidTinyMove)]
    /\ currentIDDepths' = [currentIDDepths EXCEPT ![0] = 1]
    /\ ret' = [t \in Threads |-> NoRet]
    /\ ttable' = ResetTable
    /\ solver' = [solver EXCEPT
          !.solvingPlayer = game[0].onturn,
          !.initialSpread = CurrentSpread(game[0]),
          !.p = 1,
          !.pc = "firstcall"]
    /\ UNCHANGED <<peg, access, runs, frames, ctx, probe>>

\* the one-ply search of the main thread before the helpers are started
FirstBegin ==
    /\ solver.pc = "firstcall"
    /\ CallRoot(0, 1)
    /\ solver' = [solver EXCEPT !.pc = "first"]
    /\ UNCHANGED <<peg, access, runs, game, initialMoves, currentIDDepths, ttable, ctx>>

\* the one-ply search has returned: its value is dropped, the top layer is
\* sorted by value and copied to the helpers
FirstDone ==
    /\ solver.pc = "first"
    /\ frames[0] = << >>
    /\ ret[0].set
    /\ LET sorted == SortedOrder(SeqToSet(initialMoves[0]), solver.tieBreak)
       IN initialMoves' = [t \in Threads |-> sorted]
    /\ ret' = [ret EXCEPT ![0] = NoRet]
    /\ solver' = [solver EXCEPT !.p = 2, !.pc = "iter"]
    /\ probe' = NoProbe
    /\ UNCHANGED <<peg, access, runs, game, frames, currentIDDepths, ttable, ctx>>

\* the head of the loop body: the depths are set and the helpers started,
\* each with a context of its own
Spawn ==
    /\ solver.pc = "iter"
    /\ solver.lazySMPOptim
    /\ solver.p <= solver.requestedPlies
    /\ currentIDDepths' = [t \in Threads |->
          IF t = 0 THEN solver.p ELSE HelperDepth(solver.p, t)]
    /\ ctx' = [t \in Threads |-> IF t = 0 THEN ctx[0] ELSE FALSE]
    /\ ret' = [t \in Threads |-> NoRet]
    /\ solver' = [solver EXCEPT
          !.helpers = [t \in Helpers |-> "spawned"],
          !.pc = "spawned"]
    /\ UNCHANGED <<peg, access, runs, game, frames, initialMoves, ttable, probe>>

\* the goroutine of helper t calls negamax at the root, at its own depth
HelperBegin(t) ==
    /\ t \in Helpers
    /\ solver.lazySMPOptim
    /\ solver.helpers[t] = "spawned"
    /\ CallRoot(t, currentIDDepths[t])
    /\ solver' = [solver EXCEPT !.helpers[t] = "running"]
    /\ UNCHANGED <<peg, access, runs, game, initialMoves, currentIDDepths, ttable, ctx>>

\* the main thread calls negamax at the root
MainBegin ==
    /\ solver.pc = "spawned"
    /\ CallRoot(0, solver.p)
    /\ solver' = [solver EXCEPT !.pc = "search"]
    /\ UNCHANGED <<peg, access, runs, game, initialMoves, currentIDDepths, ttable, ctx>>

\* the search of the main thread has returned: the top layer is sorted, the
\* PV and the value are taken, and the helpers are cancelled
MainEnd ==
    /\ solver.pc = "search"
    /\ solver.lazySMPOptim
    /\ frames[0] = << >>
    /\ ret[0].set
    /\ IF ret[0].err
       THEN /\ solver' = [solver EXCEPT !.pc = "wait"]
            /\ UNCHANGED initialMoves
       ELSE /\ initialMoves' = [initialMoves EXCEPT ![0] =
                  SortedOrder(SeqToSet(initialMoves[0]), solver.tieBreak)]
            /\ solver' = [solver EXCEPT
                  !.principalVariation = ret[0].pv,
                  !.bestPVValue = ret[0].value - solver.initialSpread,
                  !.completed = solver.p,
                  !.pc = "wait"]
    /\ ctx' = [t \in Threads |-> IF t = 0 THEN ctx[0] ELSE TRUE]
    /\ ret' = [ret EXCEPT ![0] = NoRet]
    /\ UNCHANGED <<peg, access, runs, game, frames, currentIDDepths, ttable, probe>>

\* the search of helper t has returned; helper 1 sorts its top layer
HelperEnd(t) ==
    /\ t \in Helpers
    /\ solver.lazySMPOptim
    /\ solver.helpers[t] = "running"
    /\ frames[t] = << >>
    /\ ret[t].set
    /\ initialMoves' = IF t = 1
                       THEN [initialMoves EXCEPT ![t] =
                               SortedOrder(SeqToSet(initialMoves[t]), solver.tieBreak)]
                       ELSE initialMoves
    /\ ret' = [ret EXCEPT ![t] = NoRet]
    /\ solver' = [solver EXCEPT !.helpers[t] = "done"]
    /\ UNCHANGED <<peg, access, runs, game, frames, currentIDDepths, ttable, ctx, probe>>

\* a loop that goes on without g.Wait
JoinNoWait ==
    /\ solver.pc = "wait"
    /\ LET s1 == [solver EXCEPT !.p = @ + 1]
       IN solver' = IF s1.p > solver.requestedPlies
                    THEN [s1 EXCEPT !.pc = "done",
                                    !.result = SolveResult(s1, "none")]
                    ELSE [s1 EXCEPT !.pc = "iter"]
    /\ UNCHANGED <<peg, access, runs, game, frames, ret, initialMoves, currentIDDepths,
                   ttable, ctx, probe>>

\* g.Wait: every helper has ended; the loop goes on or Solve returns
Join ==
    /\ solver.pc = "wait"
    /\ \A t \in Helpers : solver.helpers[t] = "done"
    /\ LET s1 == [solver EXCEPT !.p = @ + 1]
       IN solver' = IF s1.p > solver.requestedPlies
                    THEN [s1 EXCEPT !.pc = "done",
                                    !.result = SolveResult(s1, "none")]
                    ELSE [s1 EXCEPT !.pc = "iter"]
    /\ UNCHANGED <<peg, access, runs, game, frames, ret, initialMoves, currentIDDepths,
                   ttable, ctx, probe>>

\* the positions the two Solves are compared on
InitSMP ==
    /\ runs = << >>
    /\ \E g \in {x \in StartStates : x.scorelessTurns = 0 /\ x.points[1] = 0},
          tieBreak \in {1, -1} :
          /\ game = [t \in Threads |-> g]
          /\ solver = NewSolver(1, TRUE, TRUE, MinLazySMPPlies, tieBreak)
    /\ frames = [t \in Threads |-> << >>]
    /\ ret = [t \in Threads |-> NoRet]
    /\ initialMoves = [t \in Threads |-> << >>]
    /\ currentIDDepths = [t \in Threads |-> 0]
    /\ ttable = ResetTable
    /\ ctx = [t \in Threads |-> FALSE]
    /\ probe = NoProbe
    /\ access = NoAccess
    /\ peg = NoPeg

NextSMP ==
    \/ SolveStart \/ IterStart \/ IterEnd \/ SetThreads
    \/ SolveStartSMP \/ FirstBegin \/ FirstDone \/ Spawn \/ MainBegin \/ MainEnd \/ Join
    \/ \E t \in Threads : Descend(t) \/ Finish(t) \/ HelperBegin(t) \/ HelperEnd(t)

SpecSMP == InitSMP /\ [][NextSMP]_vars

\* C3: the Solve with helper threads returns the root value of the
\* single-threaded Solve of the same position with the same plies
LazySMPSameValue ==
    (solver.pc = "done" /\ solver.lazySMPOptim) =>
        solver.result.bestV = solver.reference.bestV

(***************************************************************************)
(* The table on its own: the threads of a Solve store and look up entries, *)
(* a store writing the verification hash and then the rest of the entry.   *)
(* In multi-threaded mode an access holds the lock of the stripe of its    *)
(* bucket from its first word to its last.                                 *)
(***************************************************************************)
\* the keys accessed: the root keys of four start positions, two to a bucket
TTKeys ==
    {RootKey(g, 0) :
        g \in {x \in StartStates :
                  /\ Cardinality(Occupied(x.board)) = 1
                  /\ NumTiles(x.racks[0]) = 2
                  /\ NumTiles(x.racks[1]) = 2
                  /\ x.points[1] = 0
                  /\ x.scorelessTurns = 0}}

\* the entries stored: an exact value of depth 2, a lower bound of depth 1
TTEntries ==
    {[InvalidEntry EXCEPT !.score = 3, !.flagAndDepth = FlagAndDepth(TTExact, 2),
                          !.play = TinyMove(PassMove(EmptyRack))],
     [InvalidEntry EXCEPT !.score = -3, !.flagAndDepth = FlagAndDepth(TTLower, 1),
                          !.play = TinyMove(PassMove(EmptyRack))]}

\* is a store to the bucket under way
Storing(b) ==
    \E t \in Threads :
        access.op[t].kind = "store" /\ BucketOf(access.op[t].key) = b

\* thread t starts the store of negamax: the stripe is locked in
\* multi-threaded mode and the hash is written
TTBeginStore(t, k, e) ==
    /\ t < solver.threads
    /\ access.op[t].kind = "idle"
    /\ access.count < MaxStores
    /\ LET mode == TableMode(solver.lazySMPOptim)
           st == StripeOf(BucketOf(k), solver.threads)
       IN /\ mode = "multi" => access.locks[st] = -1
          /\ ttable' = TTStoreHash(ttable, k, e)
          /\ access' = [access EXCEPT
                !.op[t] = [kind |-> "store", key |-> k, entry |-> e,
                           prev |-> ttable[BucketOf(k)]],
                !.locks[st] = IF mode = "multi" THEN t ELSE @,
                !.count = @ + 1]
    /\ UNCHANGED <<peg, runs, game, frames, ret, initialMoves, currentIDDepths,
                   solver, ctx, probe>>

\* thread t ends its store: the rest of the entry is written and the
\* stripe unlocked
TTEndStore(t) ==
    /\ access.op[t].kind = "store"
    /\ LET mode == TableMode(solver.lazySMPOptim)
           k == access.op[t].key
           e == access.op[t].entry
           st == StripeOf(BucketOf(k), solver.threads)
       IN /\ ttable' = TTStoreBody(ttable, k, e)
          /\ access' = [access EXCEPT
                !.op[t] = NoOp,
                !.locks[st] = IF mode = "multi" THEN -1 ELSE @,
                !.last[BucketOf(k)] = [set |-> TRUE, key |-> k,
                                       entry |-> [e EXCEPT !.hash = k],
                                       prev |-> access.op[t].prev],
                !.stored = @ \cup {[e EXCEPT !.hash = k]}]
    /\ UNCHANGED <<peg, runs, game, frames, ret, initialMoves, currentIDDepths,
                   solver, ctx, probe>>

\* thread t makes the lookup of negamax, under the lock of the stripe in
\* multi-threaded mode
TTLookupBy(t, k) ==
    /\ t < solver.threads
    /\ access.op[t].kind = "idle"
    /\ LET mode == TableMode(solver.lazySMPOptim)
           st == StripeOf(BucketOf(k), solver.threads)
       IN /\ mode = "multi" => access.locks[st] = -1
          /\ access' = [access EXCEPT
                !.got = [set |-> TRUE, thread |-> t, key |-> k,
                         entry |-> TTLookup(ttable, k),
                         raw |-> ttable[BucketOf(k)],
                         during |-> {u \in Threads :
                                       access.op[u].kind = "store"}]]
    /\ UNCHANGED <<peg, runs, game, frames, ret, initialMoves, currentIDDepths,
                   ttable, solver, ctx, probe>>

\* a freshly reset table and a solver of one thread or of MaxThreads
InitTT ==
    /\ runs = << >>
    /\ game = [t \in Threads |-> NoGame]
    /\ frames = [t \in Threads |-> << >>]
    /\ ret = [t \in Threads |-> NoRet]
    /\ initialMoves = [t \in Threads |-> << >>]
    /\ currentIDDepths = [t \in Threads |-> 0]
    /\ ttable = ResetTable
    /\ \E threads \in {1, MaxThreads} :
          solver = NewSolver(threads, TRUE, TRUE, MinLazySMPPlies, 1)
    /\ ctx = [t \in Threads |-> FALSE]
    /\ probe = NoProbe
    /\ access = NoAccess
    /\ peg = NoPeg

NextTT ==
    \E t \in Threads :
        \/ \E k \in TTKeys, e \in TTEntries : TTBeginStore(t, k, e)
        \/ TTEndStore(t)
        \/ \E k \in TTKeys : TTLookupBy(t, k)

SpecTT == InitTT /\ [][NextTT]_vars

\* C6: a lookup of the key of the last store to a bucket returns the entry
\* of that store unchanged, and valid, whatever entry the store replaced
StoreThenLookup ==
    \A b \in DOMAIN ttable :
        (access.last[b].set /\ ~Storing(b)) =>
            /\ TTLookup(ttable, access.last[b].key) = access.last[b].entry
            /\ EntryValid(TTLookup(ttable, access.last[b].key))

\* a store of a shallower entry has replaced a deeper entry of another key,
\* and a lookup has returned the new entry
StoreThenLookupWitness ==
    \E b \in DOMAIN ttable :
        /\ access.last[b].set
        /\ ~Storing(b)
        /\ EntryValid(access.last[b].prev)
        /\ access.last[b].prev.hash # access.last[b].key
        /\ EntryDepth(access.last[b].prev) > EntryDepth(access.last[b].entry)
        /\ access.got.set
        /\ access.got.key = access.last[b].key
        /\ access.got.entry = access.last[b].entry

\* C7: a lookup returns a valid entry only for a key that was stored, and
\* the entry is one stored under that key
NoForeignEntry ==
    (access.got.set /\ EntryValid(access.got.entry)) =>
        /\ access.got.entry.hash = access.got.key
        /\ \E e \in access.stored : e.hash = access.got.key

\* a lookup has missed on a bucket that held a valid entry of another key
NoForeignEntryWitness ==
    /\ access.got.set
    /\ ~EntryValid(access.got.entry)
    /\ EntryValid(access.got.raw)
    /\ access.got.raw.hash # access.got.key

\* C8: with helper threads, every valid entry a lookup returns is an entry
\* that one store wrote in full
NoTornEntry ==
    (solver.lazySMPOptim /\ access.got.set /\ EntryValid(access.got.entry)) =>
        access.got.entry \in access.stored

\* a lookup has returned a valid entry while another thread was storing
NoTornEntryWitness ==
    /\ solver.lazySMPOptim
    /\ access.got.set
    /\ EntryValid(access.got.entry)
    /\ access.got.during # {}

RECURSIVE PVLegal(_, _)
\* is every move of the line legal in the position its predecessors lead to
PVLegal(g, moves) ==
    \/ moves = << >>
    \/ /\ g.playing
       /\ moves[1] \in GenAll(g)
       /\ PVLegal(PlayMove(g, moves[1], FALSE), Tail(moves))

RackTileLimit == 7

RECURSIVE SubSeqAt(_, _)
\* the elements of a sequence at the positions T, in order
SubSeqAt(seq, T) ==
    IF T = {} THEN << >>
    ELSE LET i == MinOf(T) IN <<seq[i]>> \o SubSeqAt(seq, T \ {i})

\* Rack.TilesOn: the tiles of a rack, in the order of the letters
TilesOn(rack) ==
    LET RECURSIVE TilesFrom(_, _)
        TilesFrom(l, n) ==
            IF l > NumLetters THEN << >>
            ELSE IF n = 0 THEN TilesFrom(l + 1, IF l < NumLetters THEN rack[l + 1] ELSE 0)
            ELSE <<l>> \o TilesFrom(l, n - 1)
    IN TilesFrom(0, rack[0])

\* Game.SetRandomRack(p, nil): the rack of p is thrown in the bag and up to
\* RackTileLimit tiles are drawn at random; the games that may result
SetRandomRack(g, p) ==
    LET pool == g.bag \o TilesOn(g.racks[p])
        n == Min(RackTileLimit, Len(pool))
    IN {[g EXCEPT !.racks[p] = RackOf(SubSeqAt(pool, T)),
                  !.bag = SubSeqAt(pool, (1..Len(pool)) \ T)] :
           T \in {U \in SUBSET (1..Len(pool)) : Cardinality(U) = n}}

\* checks that let every non-empty bag through
CheckBagIgnoringBag(g) ==
    LET opp == 1 - g.onturn
    IN IF NumTiles(g.racks[opp]) = 0
       THEN IF Len(g.bag) = 0
            THEN {[g |-> g, err |-> "rack"]}
            ELSE {[g |-> g1, err |-> "none"] : g1 \in SetRandomRack(g, opp)}
       ELSE {[g |-> g, err |-> "none"]}

\* the checks Solve and QuickAndDirtySolve start with: an empty rack of the
\* opponent is drawn from the bag, and a bag that still holds tiles is
\* refused; the outcomes are the game after the checks and the error
CheckBag(g) ==
    LET opp == 1 - g.onturn
        bagErr(g1) == IF Len(g1.bag) > 0 THEN "bag" ELSE "none"
    IN IF NumTiles(g.racks[opp]) = 0
       THEN IF Len(g.bag) = 0
            THEN {[g |-> g, err |-> "rack"]}
            ELSE {[g |-> g1, err |-> bagErr(g1)] : g1 \in SetRandomRack(g, opp)}
       ELSE {[g |-> g, err |-> bagErr(g)]}

\* Solve is called: the checks on the racks and the bag
SolveCheck ==
    /\ solver.pc = "call"
    /\ \E o \in CheckBag(game[0]) :
         /\ game' = [game EXCEPT ![0] = o.g]
         /\ solver' = [solver EXCEPT
               !.atCall = game[0],
               !.solvingPlayer = game[0].onturn,
               !.err = o.err,
               !.result = [bestV |-> 0, bestSeq |-> << >>, err |-> o.err],
               !.pc = IF o.err = "none" THEN "start" ELSE "done"]
    /\ UNCHANGED <<peg, access, runs, frames, ret, initialMoves, currentIDDepths,
                   ttable, ctx, probe>>

\* QuickAndDirtySolve is called: the same checks
QDCheck ==
    /\ solver.pc = "qdcall"
    /\ \E o \in CheckBag(game[0]) :
         /\ game' = [game EXCEPT ![0] = o.g]
         /\ solver' = [solver EXCEPT
               !.atCall = game[0],
               !.solvingPlayer = game[0].onturn,
               !.err = o.err,
               !.result = [bestV |-> 0, bestSeq |-> << >>, err |-> o.err],
               !.pc = IF o.err = "none" THEN "qdstart" ELSE "done"]
    /\ UNCHANGED <<peg, access, runs, frames, ret, initialMoves, currentIDDepths,
                   ttable, ctx, probe>>

\* QuickAndDirtySolve after the checks: the spread is taken and negamax is
\* called at the root with the requested plies; currentIDDepths is a new
\* slice of one zero, so that the root generates its own moves
QDStart ==
    /\ solver.pc = "qdstart"
    /\ LET g == game[0]
           s1 == [solver EXCEPT
                    !.solvingPlayer = g.onturn,
                    !.initialSpread = CurrentSpread(g),
                    !.pc = "qdsearch"]
           key == IF solver.transpositionTableOptim
                  THEN RootKey(g, g.onturn) ELSE {}
           e == NodeEntry(0, g, key, solver.requestedPlies, RootAlpha, RootBeta)
       IN /\ solver' = s1
          /\ currentIDDepths' = [currentIDDepths EXCEPT ![0] = 0]
          /\ probe' = e.probe
          /\ IF e.kind = "ret"
             THEN /\ ret' = [ret EXCEPT ![0] = e.r]
                  /\ UNCHANGED frames
             ELSE /\ frames' = [frames EXCEPT ![0] =
                        <<NewFrame(e, key, solver.requestedPlies,
                                   assignEstimates(g, GenAll(g),
                                                   solver.requestedPlies, e.ttMove))>>]
                  /\ ret' = [ret EXCEPT ![0] = NoRet]
    /\ UNCHANGED <<peg, access, runs, game, initialMoves, ttable, ctx>>

\* the root search has returned: QuickAndDirtySolve takes its PV and value,
\* whatever the error, and returns them with the error
QDEnd ==
    /\ solver.pc = "qdsearch"
    /\ frames[0] = << >>
    /\ ret[0].set
    /\ LET s1 == [solver EXCEPT
                    !.principalVariation = ret[0].pv,
                    !.bestPVValue = ret[0].value - solver.initialSpread]
       IN solver' = [s1 EXCEPT
             !.pc = "done", !.err = ret[0].kind,
             !.result = [bestV |-> s1.bestPVValue,
                         bestSeq |-> s1.principalVariation.moves,
                         err |-> ret[0].kind]]
    /\ ret' = [ret EXCEPT ![0] = NoRet]
    /\ probe' = NoProbe
    /\ UNCHANGED <<peg, access, runs, game, frames, initialMoves, currentIDDepths,
                   ttable, ctx>>

\* QuickAndDirtySolve of a start position after its checks, on a table
\* that is either empty or holds one entry of an earlier solve whose key is
\* equal to the key of the root: the entry of a move m of a position g2
\* that differs from the root in the board only
InitQD ==
    /\ runs = << >>
    /\ \E g \in StartStates, tt \in BOOLEAN, plies \in 1..(MaxPlies - 1) :
          /\ game = [t \in Threads |-> g]
          /\ solver = [NewSolver(1, tt, TRUE, plies, 1) EXCEPT !.pc = "qdstart"]
          /\ \/ ttable = ResetTable
             \/ /\ tt
                /\ \E g2 \in {x \in StartStates :
                                 /\ x.board # g.board
                                 /\ x.racks = g.racks
                                 /\ x.points = g.points
                                 /\ x.scorelessTurns = g.scorelessTurns} :
                     \E m \in GenAll(g2) :
                        LET key == RootKey(g, g.onturn)
                        IN ttable = TTStore(ResetTable, key,
                              [hash |-> key, score |-> m.score,
                               flagAndDepth |-> FlagAndDepth(TTExact, plies),
                               play |-> TinyMove(m),
                               bestValue |-> m.score + CurrentSpread(g2),
                               ourSpread |-> CurrentSpread(g2), g |-> g2])
    /\ frames = [t \in Threads |-> << >>]
    /\ ret = [t \in Threads |-> NoRet]
    /\ initialMoves = [t \in Threads |-> << >>]
    /\ currentIDDepths = [t \in Threads |-> 0]
    /\ ctx = [t \in Threads |-> FALSE]
    /\ probe = NoProbe
    /\ access = NoAccess
    /\ peg = NoPeg

NextQD == QDStart \/ Descend(0) \/ Finish(0) \/ QDEnd \/ Cancel

SpecQD == InitQD /\ [][NextQD]_vars

\* C11: when the root negamax call returns an error, the caller leaves the
\* solver's principalVariation and bestPVValue as they were before the call;
\* here for the caller QuickAndDirtySolve
ErrorKeepsPV ==
    [][(solver.pc = "qdsearch" /\ solver'.pc = "done" /\ ret[0].err)
          => /\ solver'.principalVariation = solver.principalVariation
             /\ solver'.bestPVValue = solver.bestPVValue]_vars

\* C16: a table move that cannot be rebuilt is taken as a miss: it neither
\* ends a negamax call with an error nor reaches the caller of the solver
DecodeErrorIsMiss ==
    /\ \A t \in Threads : ret[t].kind # "decode"
    /\ solver.result.err # "decode"

SetThreadsForcingTable(threads) ==
    /\ solver.pc \in {"call", "qdcall"}
    /\ solver' = [solver EXCEPT
          !.threads = IF threads < 2 THEN 1 ELSE threads,
          !.lazySMPOptim = threads >= 2,
          !.transpositionTableOptim = IF threads >= 2 THEN TRUE ELSE @]
    /\ UNCHANGED <<peg, access, runs, game, frames, ret, initialMoves, currentIDDepths,
                   ttable, ctx, probe>>

\* Solver.SetThreads(threads) before the solver is called
SetThreadsTo(threads) ==
    /\ solver.pc \in {"call", "qdcall"}
    /\ solver' = [solver EXCEPT
          !.threads = IF threads < 2 THEN 1 ELSE threads,
          !.lazySMPOptim = threads >= 2]
    /\ UNCHANGED <<peg, access, runs, game, frames, ret, initialMoves, currentIDDepths,
                   ttable, ctx, probe>>

\* Solver.SetTranspositionTableOptim(i)
SetTranspositionTableOptim(i) ==
    /\ solver.pc \in {"call", "qdcall"}
    /\ solver' = [solver EXCEPT !.transpositionTableOptim = i]
    /\ UNCHANGED <<peg, access, runs, game, frames, ret, initialMoves, currentIDDepths,
                   ttable, ctx, probe>>

\* Solver.SetIterativeDeepening(i)
SetIterativeDeepening(i) ==
    /\ solver.pc \in {"call", "qdcall"}
    /\ solver' = [solver EXCEPT !.iterativeDeepeningOptim = i]
    /\ UNCHANGED <<peg, access, runs, game, frames, ret, initialMoves, currentIDDepths,
                   ttable, ctx, probe>>

\* Solve with Lazy-SMP and an option it cannot work with.  Without the
\* table Solve returns an error.  With the table but without iterative
\* deepening the search goroutine returns its error before it sends on
\* done, the goroutine that waits for done never ends, and g.Wait() never
\* returns: Solve is blocked.
SolveConflict ==
    /\ solver.pc = "start"
    /\ solver.lazySMPOptim
    /\ ~solver.transpositionTableOptim \/ ~solver.iterativeDeepeningOptim
    /\ solver' = IF ~solver.transpositionTableOptim
                 THEN [solver EXCEPT
                         !.pc = "done", !.err = "config",
                         !.result = [bestV |-> 0, bestSeq |-> << >>,
                                     err |-> "config"]]
                 ELSE [solver EXCEPT
                         !.initialSpread = CurrentSpread(game[0]),
                         !.pc = "blocked"]
    /\ ttable' = IF solver.transpositionTableOptim THEN ResetTable ELSE ttable
    /\ UNCHANGED <<peg, access, runs, game, frames, ret, initialMoves, currentIDDepths,
                   ctx, probe>>

\* the positions a solver is called with: start positions, with tiles in
\* the bag or not, and with the rack of the opponent known or empty
CallStates ==
    {[g EXCEPT !.bag = bag,
               !.racks[1] = IF known THEN @ ELSE EmptyRack] :
        g \in {x \in StartStates : x.scorelessTurns = 0 /\ x.points[1] = 0},
        bag \in {<< >>, <<1, 2>>, <<1, 1, 1, 1, 2, 2, 2, 2>>},
        known \in BOOLEAN}

\* a solver after Init (one thread, table and iterative deepening on),
\* about to be called through Solve or through QuickAndDirtySolve
InitCall ==
    /\ runs = << >>
    /\ \E g \in CallStates, entry \in {"call", "qdcall"} :
          /\ game = [t \in Threads |-> g]
          /\ solver = [NewSolver(1, TRUE, TRUE, MinLazySMPPlies, 1) EXCEPT !.pc = entry]
    /\ frames = [t \in Threads |-> << >>]
    /\ ret = [t \in Threads |-> NoRet]
    /\ initialMoves = [t \in Threads |-> << >>]
    /\ currentIDDepths = [t \in Threads |-> 0]
    /\ ttable = ResetTable
    /\ ctx = [t \in Threads |-> FALSE]
    /\ probe = NoProbe
    /\ access = NoAccess
    /\ peg = NoPeg

NextCall ==
    \/ \E threads \in 1..MaxThreads : SetThreadsTo(threads)
    \/ \E i \in BOOLEAN : SetTranspositionTableOptim(i)
    \/ \E i \in BOOLEAN : SetIterativeDeepening(i)
    \/ SolveCheck
    \/ QDCheck
    \/ SolveConflict

SpecCall == InitCall /\ [][NextCall]_vars

\* has the solver neither searched nor touched its results
NoSearchDone ==
    /\ frames = [t \in Threads |-> << >>]
    /\ ret = [t \in Threads |-> NoRet]
    /\ initialMoves = [t \in Threads |-> << >>]
    /\ solver.principalVariation = EmptyPV
    /\ solver.bestPVValue = 0
    /\ ttable = ResetTable

\* C13 as stated: a call with tiles in the bag returns the error, runs no
\* search and leaves the game as it was at the call, also when the rack of
\* the opponent is empty
BagNotEmptyRefused ==
    (solver.pc \notin {"call", "qdcall"} /\ Len(solver.atCall.bag) > 0)
       => /\ solver.pc = "done"
          /\ solver.result.err = "bag"
          /\ game[0] = solver.atCall
          /\ NoSearchDone

\* C13, amended: a call with tiles in the bag and a rack for the opponent
\* returns the error, runs no search and leaves the game as it was; with an
\* empty rack of the opponent a rack is first drawn for the opponent from
\* the bag, and the error is returned, without a search, exactly if the bag
\* still holds tiles after the draw
BagCheckAfterDraw ==
    LET g0 == solver.atCall
        opp == 1 - g0.onturn
    IN (solver.pc \notin {"call", "qdcall"} /\ Len(g0.bag) > 0)
          => IF NumTiles(g0.racks[opp]) > 0
             THEN /\ solver.pc = "done"
                  /\ solver.result.err = "bag"
                  /\ game[0] = g0
                  /\ NoSearchDone
             ELSE /\ game[0] \in SetRandomRack(g0, opp)
                  /\ NumTiles(game[0].racks[opp]) = Min(RackTileLimit, Len(g0.bag))
                  /\ IF Len(game[0].bag) > 0
                     THEN /\ solver.pc = "done"
                          /\ solver.result.err = "bag"
                          /\ NoSearchDone
                     ELSE solver.result.err \notin {"bag", "rack"}

\* a call with two tiles in the bag and no rack for the opponent has passed
\* the checks: the opponent holds the two tiles and the search is to begin
BagCheckAfterDrawWitness ==
    /\ solver.pc \in {"start", "qdstart"}
    /\ Len(solver.atCall.bag) = 2
    /\ NumTiles(solver.atCall.racks[1 - solver.atCall.onturn]) = 0
    /\ NumTiles(game[0].racks[1 - game[0].onturn]) = 2
    /\ game[0].bag = << >>

\* C14: a Solve with two or more threads and without the table, or without
\* iterative deepening, returns a configuration error to its caller (unless
\* the checks of the bag have already refused the call)
ConflictIsError ==
    (/\ solver.atCall # NoGame
     /\ solver.pc \notin {"call", "start", "qdcall", "qdstart"}
     /\ solver.err \notin {"bag", "rack"}
     /\ solver.lazySMPOptim
     /\ ~solver.transpositionTableOptim \/ ~solver.iterativeDeepeningOptim)
       => /\ solver.pc = "done"
          /\ solver.result.err = "config"

\* C15 as stated: setting the threads to two or more switches the table on
ThreadsForceTable ==
    [][(solver'.lazySMPOptim /\ ~solver.lazySMPOptim)
          => solver'.transpositionTableOptim]_vars

\* C15, amended: SetThreads selects Lazy-SMP for two or more threads and
\* the single-threaded search below two, and leaves the table option as it
\* is; a Solve with Lazy-SMP and the table off that passes the checks of
\* the bag returns a configuration error without searching
ThreadsLeaveTable ==
    /\ [](solver.lazySMPOptim <=> solver.threads >= 2)
    /\ [][solver'.threads # solver.threads
             => solver'.transpositionTableOptim = solver.transpositionTableOptim]_vars
    /\ []((/\ solver.pc \in {"done", "blocked"}
           /\ solver.err \notin {"bag", "rack"}
           /\ solver.lazySMPOptim
           /\ ~solver.transpositionTableOptim)
             => /\ solver.pc = "done"
                /\ solver.result.err = "config"
                /\ NoSearchDone)

\* the table was switched off, the threads were then set to two, and Solve
\* has returned the configuration error
ThreadsLeaveTableWitness ==
    /\ solver.pc = "done"
    /\ solver.result.err = "config"
    /\ solver.threads = 2
    /\ solver.lazySMPOptim
    /\ ~solver.transpositionTableOptim

(***************************************************************************)
(* Permutations of the tiles that may be in the bag.                       *)
(***************************************************************************)
\* the greatest count of a letter, and the greatest number of tiles drawn
MaxCount == 2
MaxDraw == 3

\* a product that leaves the counts it has used decremented
generatePermutationsNoRestore(list, k) ==
    LET RECURSIVE Decrement(_, _, _, _)
        \* product, first loop: result *= list[index]; list[index]--
        Decrement(l, perm, j, value) ==
            IF j > Len(perm) THEN [value |-> value, list |-> l]
            ELSE Decrement([l EXCEPT ![perm[j]] = @ - 1], perm, j + 1,
                           value * l[perm[j]])
        RECURSIVE Increment(_, _, _)
        \* product, second loop: list[index]++
        Increment(l, perm, j) ==
            IF j > Len(perm) THEN l
            ELSE Increment([l EXCEPT ![perm[j]] = @ + 1], perm, j + 1)
        product(l, perm) ==
            LET d == Decrement(l, perm, 1, 1)
            IN [value |-> d.value, list |-> d.list]
        RECURSIVE generate(_, _, _, _, _, _)
        \* generate, from index i of its loop on, with the permutations
        \* appended so far; origList is handed on from call to call
        generate(l, origList, n, currentPerm, i, result) ==
            IF n = 0
            THEN LET pr == product(origList, currentPerm)
                 IN [result |-> <<[Perm |-> currentPerm, Count |-> pr.value]>>,
                     origList |-> pr.list]
            ELSE IF i > NumLetters
            THEN [result |-> result, origList |-> origList]
            ELSE IF l[i] > 0
            THEN LET r == generate([l EXCEPT ![i] = @ - 1], origList, n - 1,
                                   Append(currentPerm, i), 0, << >>)
                 IN generate(l, r.origList, n, currentPerm, i + 1,
                             result \o r.result)
            ELSE generate(l, origList, n, currentPerm, i + 1, result)
    IN [result |-> generate(list, list, k, << >>, 0, << >>).result, list |-> list]

\* generatePermutations(list, k): the permutations in the order they are
\* appended, and the caller's list after the call (the function works on two
\* copies of it)
generatePermutations(list, k) ==
    LET RECURSIVE Decrement(_, _, _, _)
        \* product, first loop: result *= list[index]; list[index]--
        Decrement(l, perm, j, value) ==
            IF j > Len(perm) THEN [value |-> value, list |-> l]
            ELSE Decrement([l EXCEPT ![perm[j]] = @ - 1], perm, j + 1,
                           value * l[perm[j]])
        RECURSIVE Increment(_, _, _)
        \* product, second loop: list[index]++
        Increment(l, perm, j) ==
            IF j > Len(perm) THEN l
            ELSE Increment([l EXCEPT ![perm[j]] = @ + 1], perm, j + 1)
        product(l, perm) ==
            LET d == Decrement(l, perm, 1, 1)
            IN [value |-> d.value, list |-> Increment(d.list, perm, 1)]
        RECURSIVE generate(_, _, _, _, _, _)
        \* generate, from index i of its loop on, with the permutations
        \* appended so far; origList is handed on from call to call
        generate(l, origList, n, currentPerm, i, result) ==
            IF n = 0
            THEN LET pr == product(origList, currentPerm)
                 IN [result |-> <<[Perm |-> currentPerm, Count |-> pr.value]>>,
                     origList |-> pr.list]
            ELSE IF i > NumLetters
            THEN [result |-> result, origList |-> origList]
            ELSE IF l[i] > 0
            THEN LET r == generate([l EXCEPT ![i] = @ - 1], origList, n - 1,
                                   Append(currentPerm, i), 0, << >>)
                 IN generate(l, r.origList, n, currentPerm, i + 1,
                             result \o r.result)
            ELSE generate(l, origList, n, currentPerm, i + 1, result)
    IN [result |-> generate(list, list, k, << >>, 0, << >>).result, list |-> list]

\* a call generatePermutations(list, k) about to be made
InitPerm ==
    /\ IdleSearch
    /\ runs = << >>
    /\ \E list \in [0..NumLetters -> 0..MaxCount], k \in 0..MaxDraw :
          peg = [pc |-> "permcall", list |-> list, k |-> k,
                 atCall |-> list, result |-> << >>]

\* the call returns
PermStep ==
    /\ peg.pc = "permcall"
    /\ LET r == generatePermutations(peg.list, peg.k)
       IN peg' = [peg EXCEPT !.pc = "permdone", !.result = r.result,
                             !.list = r.list]
    /\ UNCHANGED <<runs, game, frames, ret, initialMoves, currentIDDepths, ttable,
                   solver, ctx, probe, access>>

SpecPerm == InitPerm /\ [][PermStep]_vars

\* C18: the result holds every sequence of k letter indices that can be
\* drawn without replacement from the counts, each once, in lexicographic
\* order (the same on every call); the Count of a sequence is the product
\* over its positions of the count of the letter less its uses before that
\* position; the Counts sum to n!/(n-k)!; the caller's counts are unchanged
PermutationsComplete ==
    peg.pc = "permdone" =>
       LET res == peg.result
           list == peg.atCall
           k == peg.k
           n == SumOver(DOMAIN list, list)
           UsesBefore(s, j) == Cardinality({i \in 1..(j - 1) : s[i] = s[j]})
           Drawable == {s \in [1..k -> 0..NumLetters] :
                           \A j \in 1..k : UsesBefore(s, j) < list[s[j]]}
           LexLess(a, b) ==
               \E j \in 1..k : /\ a[j] < b[j]
                               /\ \A i \in 1..(j - 1) : a[i] = b[i]
           RECURSIVE Draws(_)
           Draws(j) == IF j = 0 THEN 1 ELSE (n - j + 1) * Draws(j - 1)
           RECURSIVE Remaining(_, _)
           Remaining(s, j) ==
               IF j = 0 THEN 1
               ELSE (list[s[j]] - UsesBefore(s, j)) * Remaining(s, j - 1)
       IN /\ {res[i].Perm : i \in DOMAIN res} = Drawable
          /\ Len(res) = Cardinality(Drawable)
          /\ \A i \in 1..(Len(res) - 1) : LexLess(res[i].Perm, res[i + 1].Perm)
          /\ \A i \in DOMAIN res : res[i].Count = Remaining(res[i].Perm, k)
          /\ SumOver(DOMAIN res, [i \in DOMAIN res |-> res[i].Count]) = Draws(k)
          /\ peg.list = list

\* a call that returned several permutations of three tiles, one of them
\* with a letter drawn twice and a Count greater than one
PermutationsCompleteWitness ==
    /\ peg.pc = "permdone"
    /\ peg.k = 3
    /\ Len(peg.result) > 3
    /\ \E i \in DOMAIN peg.result :
          /\ peg.result[i].Perm[1] = peg.result[i].Perm[3]
          /\ peg.result[i].Count > 2

(***************************************************************************)
(* Pre-endgame solver.  For every candidate play and every permutation of  *)
(* the tiles that may be in the bag, the racks and the bag are arranged,   *)
(* the play is made, and the endgames that follow are solved and tallied.  *)
(* The plays are jobs on a channel, taken by the worker threads; a single  *)
(* goroutine receives the plays sent on the winner channel.  Points are    *)
(* kept in half points (2 per win, 1 per tie) and minPotentialLosses in    *)
(* half losses, so that the model stays in the integers.  Kept for the     *)
(* analysis only: reached (the endgames reached for a play, in order),     *)
(* done (the job of the play has ended), taken (how often the job was      *)
(* received), err (the job returned an error), cutAt, lossesAtCut and      *)
(* minAtCut (the cutoff inside the loop over the options).                 *)
(***************************************************************************)
\* the scoreless turns that end a game outside the endgame solver
MaxScorelessTurns == 6

\* the most candidate plays handed to the solver
MaxCandidates == 3

\* ThrowRacksInFor(opponent), moveTilesToBeginning(mls, bag) and the draw of
\* the opponent's rack from the other end of the bag, which is in fixed
\* order: the tiles mls stay in the bag
ArrangeBag(g, mls) ==
    LET opp == 1 - g.onturn
        pool == AddRack(g.racks[opp], RackOf(g.bag))
        used == RackOf(mls)
        rest == TilesOn([l \in DOMAIN pool |->
                            IF pool[l] >= used[l] THEN pool[l] - used[l] ELSE 0])
        all == mls \o rest
        n == Min(RackTileLimit, Len(all))
    IN [g EXCEPT !.racks[opp] = RackOf(SubSeq(all, Len(all) - n + 1, Len(all))),
                 !.bag = SubSeq(all, 1, Len(all) - n)]

RECURSIVE recursiveSolve(_, _, _, _, _)
\* Solver.recursiveSolve on the game g for the candidate play pl, the move
\* to make and the bag option opt: the candidate play with the outcomes of
\* the endgames reached; err is set when the endgame solver returns the
\* error of a cancelled context, and nothing more is done then
recursiveSolve(g, pl, moveToMake, opt, pegPlayEmptiesBag) ==
    LET HasLoss == \E i \in DOMAIN pl.outcomes :
                      /\ pl.outcomes[i].mls = opt.mls
                      /\ pl.outcomes[i].outcome = "Loss"
        over == ~g.playing
        \* the switch on finalSpread and oppPerspective
        Outcome(finalSpread, oppPerspective) ==
            IF (finalSpread > 0 /\ oppPerspective)
               \/ (finalSpread < 0 /\ ~oppPerspective) THEN "Loss"
            ELSE IF finalSpread = 0 THEN "Draw"
            ELSE "Win"
        \* addWinPctStat / setUnfinalizedWinPctStat of the outcome, for the
        \* spread of the player the pre-endgame is solved for
        Tally(outcome, spread) ==
            [pl EXCEPT
                !.outcomes =
                    Append(SelectSeq(pl.outcomes, LAMBDA o : o.mls # opt.mls),
                           [mls |-> opt.mls, outcome |-> outcome, ct |-> opt.ct,
                            finalized |-> pegPlayEmptiesBag]),
                !.Points = IF ~pegPlayEmptiesBag THEN @
                           ELSE IF outcome = "Win" THEN @ + 2 * opt.ct
                           ELSE IF outcome = "Draw" THEN @ + opt.ct
                           ELSE @,
                !.FoundLosses = IF outcome = "Loss" THEN @ + opt.ct ELSE @,
                !.reached = Append(@,
                    [mls |-> opt.mls, over |-> over, onturn |-> g.onturn,
                     spread |-> spread, outcome |-> outcome])]
        \* the game is over: the spread of the player solved for
        TallyOver(finalSpread) ==
            Tally(Outcome(finalSpread, CurrentSpread(g) = -finalSpread),
                  SpreadFor(g, peg.solvingForPlayer))
        \* the bag is empty: val is what QuickAndDirtySolve returns, the gain
        \* of the player on turn
        TallySolved(val) ==
            Tally(Outcome(val + CurrentSpread(g),
                          g.onturn # peg.solvingForPlayer),
                  IF g.onturn = peg.solvingForPlayer
                  THEN SpreadFor(g, peg.solvingForPlayer) + val
                  ELSE SpreadFor(g, peg.solvingForPlayer) - val)
        RECURSIVE Replies(_, _, _)
        \* the loop over the replies genPlays in the game g1
        Replies(g1, genPlays, p) ==
            IF genPlays = << >> \/ p.err THEN p
            ELSE Replies(g1, Tail(genPlays),
                         recursiveSolve(g1, p, Head(genPlays).m, opt,
                                        pegPlayEmptiesBag))
        \* the move is played; the bag is still not empty, or empty
        Played(g1) ==
            IF Len(g1.bag) > 0
            THEN Replies(g1,
                    SortedOrder(
                       {SmallMove(m, m.score
                                     + (IF moveToMake.action = MoveTypePass
                                           /\ m.action = MoveTypePass
                                        THEN EarlyPassOffset ELSE 0)) :
                           m \in GenAll(g1)},
                       peg.tieBreak),
                    pl)
            ELSE recursiveSolve(g1, pl, PassMove(EmptyRack), opt,
                                pegPlayEmptiesBag)
    IN IF HasLoss THEN pl
       ELSE IF over THEN TallyOver(SpreadFor(g, peg.solvingForPlayer))
       ELSE IF Len(g.bag) = 0
            THEN IF ctx[0] THEN [pl EXCEPT !.err = TRUE]
                 ELSE TallySolved(Minimax(g, peg.curEndgamePlies)
                                     - CurrentSpread(g))
       ELSE Played(PlayMove(g, moveToMake, TRUE))

RECURSIVE GameAfterSolve(_, _, _, _, _)
\* the game of the thread when Solver.recursiveSolve returns: the frame that
\* played moveToMake calls UnplayLastMove when its loop over the replies has
\* run to its end, or after its one call with the bag empty; the return of
\* an error inside the loop over the replies leaves the game as the reply
\* that returned the error left it.  A reply that returns no error has
\* undone what it played
GameAfterSolve(g, pl, moveToMake, opt, pegPlayEmptiesBag) ==
    LET HasLoss == \E i \in DOMAIN pl.outcomes :
                      /\ pl.outcomes[i].mls = opt.mls
                      /\ pl.outcomes[i].outcome = "Loss"
        RECURSIVE Replies(_, _, _)
        Replies(g1, genPlays, p) ==
            IF genPlays = << >> THEN UnplayLastMove(g1)
            ELSE LET p1 == recursiveSolve(g1, p, Head(genPlays).m, opt,
                                          pegPlayEmptiesBag)
                 IN IF p1.err
                    THEN GameAfterSolve(g1, p, Head(genPlays).m, opt,
                                        pegPlayEmptiesBag)
                    ELSE Replies(g1, Tail(genPlays), p1)
        Played(g1) ==
            IF Len(g1.bag) > 0
            THEN Replies(g1,
                    SortedOrder(
                       {SmallMove(m, m.score
                                     + (IF moveToMake.action = MoveTypePass
                                           /\ m.action = MoveTypePass
                                        THEN EarlyPassOffset ELSE 0)) :
                           m \in GenAll(g1)},
                       peg.tieBreak),
                    pl)
            ELSE UnplayLastMove(g1)
    IN IF HasLoss \/ ~g.playing \/ Len(g.bag) = 0 THEN g
       ELSE Played(PlayMove(g, moveToMake, TRUE))

\* the pre-endgame solver before multithreadSolveGeneric is called on the
\* game g: the candidate plays are the highest-scoring plays and the pass;
\* w holds, for every worker, its place in its loop over the jobs
PegSolver(g, threads, knownOppRack, skipLoss, earlyCutoff) ==
    LET plays == SortedOrder({SmallMove(m, m.score) :
                                 m \in GenAll(g) \ {PassMove(g.racks[g.onturn])}}, 1)
        n == Min(MaxCandidates - 1, Len(plays))
    IN [pc |-> "pegcall", threads |-> threads, solvingForPlayer |-> g.onturn,
        numinbag |-> Len(g.bag), knownOppRack |-> knownOppRack,
        moves |-> [i \in 1..n |-> plays[i].m]
                     \o <<PassMove(g.racks[g.onturn])>>,
        skipLossOptim |-> skipLoss, earlyCutoffOptim |-> earlyCutoff,
        curEndgamePlies |-> MaxPlies - 1, tieBreak |-> 1,
        plays |-> << >>, maybeInBagTiles |-> EmptyRack, numCombos |-> 0,
        minPotentialLosses |-> HugeNumber, potentialWinnerMutex |-> "free",
        winnerSoFar |-> << >>, winnerChan |-> << >>,
        jobChan |-> << >>, queuedJobs |-> 0, closed |-> FALSE,
        numCutoffs |-> 0, err |-> "none",
        w |-> [t \in 0..(threads - 1) |->
                  [pc |-> "idle", job |-> 0, options |-> << >>, idx |-> 0,
                   firstPlayEmptiesBag |-> FALSE]]]

\* multithreadSolveGeneric up to the jobs: the candidate plays, the tiles
\* that may be in the bag, the workers, and the number of combinations
PegStart ==
    /\ peg.pc = "pegcall"
    /\ LET g == game[0]
           opp == 1 - g.onturn
           seen == AddRack(g.racks[opp], RackOf(g.bag))
           known == RackOf(peg.knownOppRack)
           RECURSIVE NumPermutations(_, _)
           NumPermutations(n, k) ==
               IF k = 0 THEN 1 ELSE n * NumPermutations(n - 1, k - 1)
       IN peg' = [peg EXCEPT
             !.pc = "jobs",
             !.plays = [i \in DOMAIN peg.moves |->
                          [Play |-> peg.moves[i], Points |-> 0, FoundLosses |-> 0,
                           outcomes |-> << >>, stopped |-> FALSE,
                           done |-> FALSE, reached |-> << >>,
                           taken |-> 0, err |-> FALSE, cutAt |-> 0,
                           lossesAtCut |-> 0, minAtCut |-> 0]],
             !.maybeInBagTiles = [l \in DOMAIN seen |-> seen[l] - known[l]],
             !.numCombos = NumPermutations(peg.numinbag + RackTileLimit,
                                           peg.numinbag)]
    /\ UNCHANGED <<runs, game, frames, ret, initialMoves, currentIDDepths, ttable,
                   solver, ctx, probe, access>>

\* createGenericPEGJobs: one job for every play is sent on the job channel,
\* which holds as many jobs as there are threads, and the channel is closed
createGenericPEGJobs ==
    /\ peg.pc = "jobs"
    /\ ~peg.closed
    /\ IF peg.queuedJobs < Len(peg.plays)
       THEN /\ Len(peg.jobChan) < peg.threads
            /\ peg' = [peg EXCEPT !.jobChan = Append(@, peg.queuedJobs + 1),
                                  !.queuedJobs = @ + 1]
       ELSE peg' = [peg EXCEPT !.closed = TRUE]
    /\ UNCHANGED <<runs, game, frames, ret, initialMoves, currentIDDepths, ttable,
                   solver, ctx, probe, access>>

\* the test of the early cutoff: more losses found for the play than the
\* fewest a play sent on the winner channel may still have
EarlyCutoffAnyLoss(FoundLosses, minPotentialLosses) == FoundLosses > 0

EarlyCutoff(FoundLosses, minPotentialLosses) ==
    2 * FoundLosses > minPotentialLosses

\* what numCutoffs grows by when a play is cut off before the option at
\* place idx (counted from 1) of n options
CutoffCountOne(n, idx) == 1

CutoffCount(n, idx) == n - (idx - 1)

\* worker t takes a job from the channel; handleJobGeneric up to its loop
\* over the options: the check of the context, the checks of the cutoffs,
\* the permutations, the estimate of the opponent's reply to each, and
\* their order
JobStart(t) ==
    /\ peg.pc = "jobs"
    /\ peg.w[t].pc = "idle"
    /\ peg.jobChan # << >>
    /\ LET j == Head(peg.jobChan)
           pl == peg.plays[j]
           g == game[t]
           skipCut == peg.skipLossOptim /\ pl.FoundLosses > 0
           cut == \/ skipCut
                  \/ /\ peg.earlyCutoffOptim
                     /\ EarlyCutoff(pl.FoundLosses, peg.minPotentialLosses)
           readsMin == /\ ~ctx[0]
                       /\ peg.skipLossOptim \/ peg.earlyCutoffOptim
                       /\ ~skipCut
           permutations == generatePermutations(peg.maybeInBagTiles,
                                                peg.numinbag).result
           firstPlayEmptiesBag == TilesPlayed(pl.Play) >= peg.numinbag
           topEquity(mls) ==
               IF firstPlayEmptiesBag
               THEN LET g1 == PlayMove(ArrangeBag(g, mls), pl.Play, TRUE)
                    IN MaxOf({m.score : m \in GenAll(g1)})
               ELSE 0
           options == [i \in DOMAIN permutations |->
                         [mls |-> permutations[i].Perm,
                          ct |-> permutations[i].Count,
                          oppEstimate |-> topEquity(permutations[i].Perm)]]
           RECURSIVE Order(_)
           \* sort.Slice by oppEstimate, from most to least
           Order(S) ==
               IF S = {} THEN << >>
               ELSE LET x == CHOOSE i \in S : \A k \in S :
                                \/ options[i].oppEstimate > options[k].oppEstimate
                                \/ /\ options[i].oppEstimate = options[k].oppEstimate
                                   /\ i <= k
                    IN <<x>> \o Order(S \ {x})
           order == Order(DOMAIN options)
           sorted == IF firstPlayEmptiesBag
                     THEN [i \in DOMAIN options |-> options[order[i]]]
                     ELSE options
       IN /\ readsMin => peg.potentialWinnerMutex = "free"
          /\ IF ctx[0]
             THEN /\ peg' = [peg EXCEPT
                        !.jobChan = Tail(@),
                        !.plays[j].taken = @ + 1,
                        !.plays[j].err = TRUE,
                        !.plays[j].done = TRUE]
                  /\ UNCHANGED game
             ELSE IF cut \/ Len(options) = 0
             THEN /\ peg' = [peg EXCEPT
                        !.jobChan = Tail(@),
                        !.plays[j].taken = @ + 1,
                        !.plays[j].stopped = IF cut THEN TRUE ELSE @,
                        !.plays[j].done = TRUE,
                        !.numCutoffs = IF cut THEN @ + 1 ELSE @]
                  /\ UNCHANGED game
             ELSE /\ peg' = [peg EXCEPT
                        !.jobChan = Tail(@),
                        !.plays[j].taken = @ + 1,
                        !.w[t] = [pc |-> "options", job |-> j,
                                  options |-> sorted, idx |-> 1,
                                  firstPlayEmptiesBag |-> firstPlayEmptiesBag]]
                  /\ game' = [game EXCEPT ![t] =
                        IF firstPlayEmptiesBag
                        THEN ArrangeBag(g, options[Len(options)].mls)
                        ELSE g]
    /\ UNCHANGED <<runs, frames, ret, initialMoves, currentIDDepths, ttable,
                   solver, ctx, probe, access>>

\* one turn of the loop of handleJobGeneric over the options, by worker t:
\* the check of the cutoff, the arrangement of the racks and the bag,
\* recursiveSolve, and for a play that empties the bag the send of the play
\* on the winner channel, which waits until the receiver is back at the
\* channel.  cutAt, lossesAtCut and minAtCut record the cutoff.
JobOption(t) ==
    /\ peg.w[t].pc = "options"
    /\ peg.potentialWinnerMutex = "free"
    /\ LET w == peg.w[t]
           pl == peg.plays[w.job]
           opt == w.options[w.idx]
           cut == /\ EarlyCutoff(pl.FoundLosses, peg.minPotentialLosses)
                  /\ peg.earlyCutoffOptim
           idle == [w EXCEPT !.pc = "idle"]
           \* after recursiveSolve has returned the play pl1
           Solved(pl1, sent, last) ==
               /\ sent => peg.winnerChan = << >>
               /\ peg' = [peg EXCEPT
                     !.plays[w.job] = [pl1 EXCEPT !.done = last],
                     !.winnerChan = IF sent THEN <<pl1>> ELSE @,
                     !.w[t] = IF last THEN idle ELSE [w EXCEPT !.idx = @ + 1]]
           HandleReturn(pl1) ==
               Solved(pl1,
                      w.firstPlayEmptiesBag /\ Len(pl1.reached) > Len(pl.reached),
                      w.idx = Len(w.options) \/ pl1.err)
           \* the game after recursiveSolve has returned the play pl1
           SolveReturned(g, pl1) ==
               /\ HandleReturn(pl1)
               /\ game' = [game EXCEPT ![t] =
                     IF pl1.err
                     THEN GameAfterSolve(g, pl, pl.Play, opt,
                                         w.firstPlayEmptiesBag)
                     ELSE g]
           Arranged(g) ==
               SolveReturned(g, recursiveSolve(g, pl, pl.Play, opt,
                                               w.firstPlayEmptiesBag))
       IN IF cut
          THEN /\ peg' = [peg EXCEPT
                     !.plays[w.job].stopped = TRUE,
                     !.plays[w.job].done = TRUE,
                     !.plays[w.job].cutAt = w.idx,
                     !.plays[w.job].lossesAtCut = pl.FoundLosses,
                     !.plays[w.job].minAtCut = peg.minPotentialLosses,
                     !.numCutoffs = @ + CutoffCount(Len(w.options), w.idx),
                     !.w[t] = idle]
               /\ UNCHANGED game
          ELSE Arranged(ArrangeBag(game[t], opt.mls))
    /\ UNCHANGED <<runs, frames, ret, initialMoves, currentIDDepths, ttable,
                   solver, ctx, probe, access>>

\* a worker that returns when it finds no job in the channel
WorkerExitEarly(t) ==
    /\ peg.pc = "jobs"
    /\ peg.w[t].pc = "idle"
    /\ peg.jobChan = << >>
    /\ peg' = [peg EXCEPT !.w[t].pc = "exited"]
    /\ UNCHANGED <<runs, game, frames, ret, initialMoves, currentIDDepths, ttable,
                   solver, ctx, probe, access>>

\* worker t finds the job channel closed and empty, and returns
WorkerExit(t) ==
    /\ peg.pc = "jobs"
    /\ peg.w[t].pc = "idle"
    /\ peg.jobChan = << >>
    /\ peg.closed
    /\ peg' = [peg EXCEPT !.w[t].pc = "exited"]
    /\ UNCHANGED <<runs, game, frames, ret, initialMoves, currentIDDepths, ttable,
                   solver, ctx, probe, access>>

\* the goroutine that determines the winner, with the play p it took from
\* the channel: winnerSoFar, and the lock of potentialWinnerMutex
WinnerRecv ==
    /\ peg.winnerChan # << >>
    /\ peg.potentialWinnerMutex = "free"
    /\ LET p == peg.winnerChan[1]
       IN peg' = [peg EXCEPT
             !.winnerSoFar = IF @ = << >> \/ p.Points > @[1].Points
                             THEN <<p>> ELSE @,
             !.potentialWinnerMutex = "locked"]
    /\ UNCHANGED <<runs, game, frames, ret, initialMoves, currentIDDepths, ttable,
                   solver, ctx, probe, access>>

\* the new least number of potential losses
FewestPotentialLossesLast(minPotentialLosses, ppotentialLosses) == ppotentialLosses

FewestPotentialLosses(minPotentialLosses, ppotentialLosses) ==
    IF ppotentialLosses < minPotentialLosses THEN ppotentialLosses
    ELSE minPotentialLosses

\* the goroutine that determines the winner, holding potentialWinnerMutex:
\* minPotentialLosses, the unlock, and the return to the channel
WinnerUpdate ==
    /\ peg.potentialWinnerMutex = "locked"
    /\ LET p == peg.winnerChan[1]
           ppotentialLosses == 2 * peg.numCombos - p.Points
       IN peg' = [peg EXCEPT
             !.winnerChan = << >>,
             !.minPotentialLosses = FewestPotentialLosses(@, ppotentialLosses),
             !.potentialWinnerMutex = "free"]
    /\ UNCHANGED <<runs, game, frames, ret, initialMoves, currentIDDepths, ttable,
                   solver, ctx, probe, access>>

\* sort.Slice of the plays by Points, from most to least
SortByPointsUnsorted(plays) == plays

SortByPoints(plays) ==
    LET RECURSIVE Order(_)
        Order(S) ==
            IF S = {} THEN << >>
            ELSE LET x == CHOOSE i \in S : \A j \in S :
                             \/ plays[i].Points > plays[j].Points
                             \/ /\ plays[i].Points = plays[j].Points
                                /\ i <= j
                 IN <<x>> \o Order(S \ {x})
        order == Order(DOMAIN plays)
    IN [i \in DOMAIN plays |-> plays[order[i]]]

\* a return that does not wait for the goroutine at the winner channel
PegEndNoWinnerWait ==
    /\ peg.pc = "jobs"
    /\ peg.closed
    /\ \A t \in DOMAIN peg.w : peg.w[t].pc = "exited"
    /\ peg' = [peg EXCEPT
          !.pc = "pegdone",
          !.plays = SortByPoints(peg.plays),
          !.err = IF ctx[0] THEN "ErrCanceledEarly" ELSE "none"]
    /\ UNCHANGED <<runs, game, frames, ret, initialMoves, currentIDDepths, ttable,
                   solver, ctx, probe, access>>

\* a return that tells nothing of a cancelled context
PegEndNoError ==
    /\ peg.pc = "jobs"
    /\ peg.closed
    /\ \A t \in DOMAIN peg.w : peg.w[t].pc = "exited"
    /\ peg.winnerChan = << >>
    /\ peg.potentialWinnerMutex = "free"
    /\ peg' = [peg EXCEPT !.pc = "pegdone", !.plays = SortByPoints(peg.plays)]
    /\ UNCHANGED <<runs, game, frames, ret, initialMoves, currentIDDepths, ttable,
                   solver, ctx, probe, access>>

\* multithreadSolveGeneric after the jobs: every worker has returned, the
\* winner channel is closed and its receiver has returned, the plays are
\* sorted by points, and the error tells of a cancelled context
PegEnd ==
    /\ peg.pc = "jobs"
    /\ peg.closed
    /\ \A t \in DOMAIN peg.w : peg.w[t].pc = "exited"
    /\ peg.winnerChan = << >>
    /\ peg.potentialWinnerMutex = "free"
    /\ peg' = [peg EXCEPT
          !.pc = "pegdone",
          !.plays = SortByPoints(peg.plays),
          !.err = IF ctx[0] THEN "ErrCanceledEarly" ELSE "none"]
    /\ UNCHANGED <<runs, game, frames, ret, initialMoves, currentIDDepths, ttable,
                   solver, ctx, probe, access>>

\* a pre-endgame position with one or two tiles in the bag and seven tiles
\* on each rack, solved by one thread; the opponent's rack is not known,
\* known in part, or known
InitPEG ==
    /\ runs = << >>
    /\ frames = [t \in Threads |-> << >>]
    /\ ret = [t \in Threads |-> NoRet]
    /\ initialMoves = [t \in Threads |-> << >>]
    /\ currentIDDepths = [t \in Threads |-> 0]
    /\ ttable = ResetTable
    /\ solver = NewSolver(1, FALSE, TRUE, MaxPlies - 1, 1)
    /\ ctx = [t \in Threads |-> FALSE]
    /\ probe = NoProbe
    /\ access = NoAccess
    /\ \E board \in StartBoards, bag \in {<<2>>, <<1, 2>>},
          pts \in {<<0, 0>>, <<0, 4>>}, scoreless \in {0, MaxScorelessTurns - 1},
          knownOppRack \in {<< >>, <<1, 2>>, <<1, 1, 1, 1, 2, 2, 2>>},
          skipLoss \in BOOLEAN, earlyCutoff \in BOOLEAN :
          LET g == [NewGame(board,
                            [p \in Players |->
                                IF p = 0 THEN RackOf(<<1, 1, 1, 2, 2, 2, 2>>)
                                ELSE RackOf(<<1, 1, 1, 1, 2, 2, 2>>)],
                            [p \in Players |-> pts[p + 1]], 0, scoreless)
                      EXCEPT !.bag = bag,
                             !.maxScorelessTurns = MaxScorelessTurns]
          IN /\ game = [t \in Threads |-> g]
             /\ peg = PegSolver(g, 1, knownOppRack, skipLoss, earlyCutoff)

NextPEG ==
    \/ PegStart
    \/ createGenericPEGJobs
    \/ \E t \in DOMAIN peg.w : JobStart(t)
    \/ \E t \in DOMAIN peg.w : JobOption(t)
    \/ \E t \in DOMAIN peg.w : WorkerExit(t)
    \/ WinnerRecv
    \/ WinnerUpdate
    \/ PegEnd

SpecPEG == InitPEG /\ [][NextPEG]_vars

\* the context handed to the solver is cancelled, or its deadline passes
PegCancel ==
    /\ peg.pc \in {"pegcall", "jobs"}
    /\ ~ctx[0]
    /\ ctx' = [ctx EXCEPT ![0] = TRUE]
    /\ UNCHANGED <<runs, game, frames, ret, initialMoves, currentIDDepths, ttable,
                   solver, probe, access, peg>>

\* pre-endgame positions with one and with two tiles in the bag, solved by
\* one thread or more, with the early cutoff on or off; nothing is known
\* of the opponent's rack; the moves to solve are handed in from the best
\* score down, or the other way round
InitDriver ==
    /\ runs = << >>
    /\ frames = [t \in Threads |-> << >>]
    /\ ret = [t \in Threads |-> NoRet]
    /\ initialMoves = [t \in Threads |-> << >>]
    /\ currentIDDepths = [t \in Threads |-> 0]
    /\ ttable = ResetTable
    /\ solver = NewSolver(1, FALSE, TRUE, MaxPlies - 1, 1)
    /\ ctx = [t \in Threads |-> FALSE]
    /\ probe = NoProbe
    /\ access = NoAccess
    /\ \E start \in {<<1, <<2>>, FALSE>>, <<1, <<2>>, TRUE>>,
                      <<2, <<1, 2>>, FALSE>>},
          threads \in 1..MaxThreads, earlyCutoff \in BOOLEAN :
          LET board == [s \in Squares |-> IF s = 1 THEN 1
                                          ELSE IF s = start[1] THEN 2 ELSE 0]
              g == [NewGame(board,
                            [p \in Players |->
                                IF p = 0 THEN RackOf(<<1, 1, 1, 2, 2, 2, 2>>)
                                ELSE RackOf(<<1, 1, 1, 1, 2, 2, 2>>)],
                            [p \in Players |-> 0], 0, 0)
                      EXCEPT !.bag = start[2],
                             !.maxScorelessTurns = MaxScorelessTurns]
              solve == PegSolver(g, threads, << >>, FALSE, earlyCutoff)
              n == Len(solve.moves)
          IN /\ game = [t \in Threads |-> g]
             /\ peg = [solve EXCEPT
                   !.moves = IF start[3]
                             THEN [i \in 1..n |-> solve.moves[n + 1 - i]]
                             ELSE solve.moves]

NextDriver == NextPEG \/ PegCancel

SpecDriver == InitDriver /\ [][NextDriver]_vars

\* a step of the goroutine of worker t
WorkerStep(t) ==
    /\ t \in DOMAIN peg.w
    /\ JobStart(t) \/ JobOption(t) \/ WorkerExit(t)

\* states in which worker t can take a step: a job waits in the channel,
\* or it is in the loop over its options, and nobody holds
\* potentialWinnerMutex and the receiver is at the winner channel; or the
\* job channel is closed and empty
WorkerReady(t) ==
    /\ t \in DOMAIN peg.w
    /\ peg.pc = "jobs"
    /\ \/ /\ \/ peg.w[t].pc = "idle" /\ peg.jobChan # << >>
             \/ peg.w[t].pc = "options"
          /\ peg.potentialWinnerMutex = "free"
          /\ peg.winnerChan = << >>
       \/ /\ peg.w[t].pc = "idle"
          /\ peg.jobChan = << >>
          /\ peg.closed

\* the scheduler lets every goroutine that can take a step take one.  For
\* the workers the weak fairness is written out, with WorkerReady(t) for
\* the states in which a step can be taken: that asks no more of the
\* scheduler than WF_vars(WorkerStep(t)) does
SpecDriverFair ==
    /\ SpecDriver
    /\ WF_vars(PegStart)
    /\ WF_vars(createGenericPEGJobs)
    /\ \A t \in Threads :
          []<>~WorkerReady(t) \/ []<><<WorkerStep(t)>>_vars
    /\ WF_vars(WinnerRecv)
    /\ WF_vars(WinnerUpdate)
    /\ WF_vars(PegEnd)

\* C17: for a play whose first move empties the bag and whose job has run
\* over all permutations, the counts of the recorded outcomes sum to
\* numCombos, whatever is known of the opponent's rack
OutcomesSumToCombos ==
    peg.pc \in {"jobs", "options", "pegdone"} =>
       \A i \in DOMAIN peg.plays :
          LET pl == peg.plays[i]
          IN (/\ pl.done
              /\ ~pl.stopped
              /\ TilesPlayed(pl.Play) >= peg.numinbag)
                => SumOver(DOMAIN pl.outcomes,
                           [j \in DOMAIN pl.outcomes |-> pl.outcomes[j].ct])
                      = peg.numCombos

\* C19: the outcome recorded for an endgame reached is Win exactly if the
\* final spread of the player the pre-endgame is solved for is positive,
\* Draw if it is zero, Loss if it is negative, with the game over or not
\* and with either player on turn
OutcomeIsSolversSpread ==
    peg.pc \in {"jobs", "options", "pegdone"} =>
       \A i \in DOMAIN peg.plays :
          \A j \in DOMAIN peg.plays[i].reached :
             LET r == peg.plays[i].reached[j]
             IN r.outcome = IF r.spread > 0 THEN "Win"
                            ELSE IF r.spread = 0 THEN "Draw" ELSE "Loss"

\* C20: with skip_loss on and early_cutoff off, no endgame is solved for a
\* play after the first loss recorded for it, and a play with a loss whose
\* job has ended is marked stopped
SkipLossAbandons ==
    (/\ peg.pc \in {"jobs", "options", "pegdone"}
     /\ peg.skipLossOptim
     /\ ~peg.earlyCutoffOptim)
       => \A i \in DOMAIN peg.plays :
             LET pl == peg.plays[i]
             IN /\ \A j \in DOMAIN pl.reached :
                      pl.reached[j].outcome = "Loss" => j = Len(pl.reached)
                /\ (pl.done /\ pl.FoundLosses > 0) => pl.stopped

\* C21: with early_cutoff on, the loop over the n options of a play stops
\* before the option at place i exactly if the play's found losses are then
\* more than minPotentialLosses; the play is marked stopped, numCutoffs
\* grows by the n - i + 1 options from that place on (places counted from
\* 1), and the tallies of the play do not change then or later; with
\* early_cutoff off the loop never stops so
CutoffCountsSkipped ==
    [][/\ \A t \in DOMAIN peg.w :
             (peg.w[t].pc = "options" /\ peg'.w[t] # peg.w[t]) =>
                LET w == peg.w[t]
                    pl == peg.plays[w.job]
                    pl1 == peg'.plays[w.job]
                IN IF /\ peg.earlyCutoffOptim
                      /\ 2 * pl.FoundLosses > peg.minPotentialLosses
                   THEN /\ pl1.stopped
                        /\ pl1.done
                        /\ peg'.numCutoffs
                              = peg.numCutoffs + Len(w.options) - w.idx + 1
                        /\ pl1.reached = pl.reached
                        /\ pl1.outcomes = pl.outcomes
                        /\ pl1.Points = pl.Points
                   ELSE /\ ~pl1.stopped
                        /\ peg'.numCutoffs = peg.numCutoffs
       /\ \A j \in DOMAIN peg.plays :
             (peg.plays[j].done /\ peg'.pc = "jobs") =>
                peg'.plays[j] = peg.plays[j]]_vars

\* a play cut off before its second option of four, the three options
\* counted as cutoffs
CutoffCountsSkippedWitness ==
    /\ peg.pc = "pegdone"
    /\ peg.numCutoffs = 3
    /\ \E j \in DOMAIN peg.plays :
          /\ peg.plays[j].stopped
          /\ peg.plays[j].cutAt = 2
          /\ Len(peg.plays[j].reached) = 1

\* C22: minPotentialLosses never grows, it changes only in a step taken
\* with potentialWinnerMutex locked, and when the receiver of the winner
\* channel unlocks after the play p it is at most numCombos - p.Points
MinPotentialLossesFalls ==
    [][/\ peg'.minPotentialLosses <= peg.minPotentialLosses
       /\ peg'.minPotentialLosses # peg.minPotentialLosses
             => peg.potentialWinnerMutex = "locked"
       /\ (peg.potentialWinnerMutex = "locked"
              /\ peg'.potentialWinnerMutex = "free")
             => peg'.minPotentialLosses
                   <= 2 * peg.numCombos - peg.winnerChan[1].Points]_vars

\* the receiver holds the lock with a play that has more potential losses
\* than the fewest known, two workers running
MinPotentialLossesFallsWitness ==
    /\ peg.threads = 2
    /\ peg.potentialWinnerMutex = "locked"
    /\ peg.minPotentialLosses < HugeNumber
    /\ 2 * peg.numCombos - peg.winnerChan[1].Points > peg.minPotentialLosses

\* C23: a play never has more points and losses than there are
\* combinations; when the solve returns, for every play stopped by the
\* early cutoff another play has more points than numCombos less the
\* losses found for the stopped play, and the play ranked first was not
\* stopped
CutoffKeepsBest ==
    /\ \A i \in DOMAIN peg.plays :
          peg.plays[i].Points + 2 * peg.plays[i].FoundLosses
             <= 2 * peg.numCombos
    /\ peg.pc = "pegdone" =>
          /\ \A i \in DOMAIN peg.plays :
                peg.plays[i].stopped =>
                   \E k \in DOMAIN peg.plays :
                      /\ k # i
                      /\ peg.plays[k].Points
                            > 2 * peg.numCombos - 2 * peg.plays[i].FoundLosses
          /\ ~peg.plays[1].stopped

\* a solve by two workers that has returned with a play stopped by the
\* early cutoff
CutoffKeepsBestWitness ==
    /\ peg.pc = "pegdone"
    /\ peg.threads = 2
    /\ peg.earlyCutoffOptim
    /\ \E i \in DOMAIN peg.plays :
          peg.plays[i].stopped /\ peg.plays[i].FoundLosses > 0

\* C24: the list returned holds every move handed in exactly once, and is
\* in the order of the points, from most to least
AllPlaysReturnedSorted ==
    peg.pc = "pegdone" =>
       /\ Len(peg.plays) = Len(peg.moves)
       /\ \A k \in DOMAIN peg.moves :
             Cardinality({i \in DOMAIN peg.plays :
                             peg.plays[i].Play = peg.moves[k]}) = 1
       /\ \A i, j \in DOMAIN peg.plays :
             i < j => peg.plays[i].Points >= peg.plays[j].Points

\* a list returned with a play that was cut off, and with the play that
\* was handed in last at its head
AllPlaysReturnedSortedWitness ==
    /\ peg.pc = "pegdone"
    /\ \E i \in DOMAIN peg.plays : peg.plays[i].stopped
    /\ peg.plays[1].Play = peg.moves[Len(peg.moves)]
    /\ peg.plays[1].Points > peg.plays[2].Points

\* C25: the solve of a cancelled context ends; it returns ErrCanceledEarly
\* and the whole list of plays, each with the tallies it had; a job taken
\* from the channel after the cancellation ends at once with nothing
\* analysed
CancelReturnsPartial ==
    /\ []((peg.pc = "pegdone" /\ ctx[0]) =>
             /\ peg.err = "ErrCanceledEarly"
             /\ Len(peg.plays) = Len(peg.moves))
    /\ [][/\ \A j \in DOMAIN peg.plays :
                (/\ ctx[0]
                 /\ peg'.pc = "jobs"
                 /\ peg.plays[j].taken = 0
                 /\ peg'.plays[j].taken = 1)
                   => /\ peg'.plays[j].done
                      /\ peg'.plays[j].reached = << >>
                      /\ peg'.plays[j].outcomes = << >>
          /\ (peg.pc = "jobs" /\ peg'.pc = "pegdone") =>
                \A i \in DOMAIN peg.plays :
                   \E k \in DOMAIN peg'.plays : peg'.plays[k] = peg.plays[i]]_vars
    /\ (ctx[0] ~> peg.pc = "pegdone")

\* a solve cancelled on the way that has returned: one play has tallies,
\* another was taken after the cancellation
CancelReturnsPartialWitness ==
    /\ peg.pc = "pegdone"
    /\ ctx[0]
    /\ \E i \in DOMAIN peg.plays :
          peg.plays[i].reached # << >> /\ peg.plays[i].err
    /\ \E i \in DOMAIN peg.plays :
          peg.plays[i].err /\ peg.plays[i].reached = << >>

\* C26: no job is taken twice and when the solve returns every job has
\* been taken once; a worker returns only when the job channel is closed
\* and empty, also after a job with an error; and the solve returns, with
\* one thread and with more, and with more jobs than the channel holds
JobsTakenOnceAndDone ==
    /\ [](/\ \A j \in DOMAIN peg.plays :
                /\ peg.plays[j].taken <= 1
                /\ peg.pc = "pegdone" => peg.plays[j].taken = 1
          /\ \A t \in DOMAIN peg.w :
                peg.w[t].pc = "exited" => (peg.closed /\ peg.jobChan = << >>))
    /\ <>(peg.pc = "pegdone")

\* a solve by two workers of three jobs that has returned, a job having
\* returned an error and a later job having been taken
JobsTakenOnceAndDoneWitness ==
    /\ peg.pc = "pegdone"
    /\ peg.threads = 2
    /\ Len(peg.plays) > peg.threads
    /\ Cardinality({i \in DOMAIN peg.plays : peg.plays[i].err}) >= 2

(***************************************************************************)
(* PlayMove with backup and UnplayLastMove on a game with tiles in the     *)
(* bag.  peg holds what the caller knows: the games before the moves that  *)
(* are not undone yet, the last move, and the game an undo has to bring    *)
(* back.                                                                   *)
(***************************************************************************)
MaxStackDepth == 2

\* the exchanges the player on turn can make: tiles of the rack, no more
\* than the bag holds (Bag.Exchange fails otherwise)
Exchanges(g) ==
    LET rack == g.racks[g.onturn]
        n == Min(NumTiles(rack), Len(g.bag))
    IN {ExchangeMove(t, [l \in 0..NumLetters |-> rack[l] - RackOf(t)[l]]) :
           t \in {u \in UNION {Assignments(rack, k) : k \in 1..n} :
                     \A i \in 1..(Len(u) - 1) : u[i] <= u[i + 1]}}

\* the orders in which a shuffle can leave the tiles of a bag
BagOrders(bag) ==
    {b \in [1..Len(bag) -> Letters] : RackOf(b) = RackOf(bag)}

\* games with no, one and two tiles in the bag, at the first scoreless
\* turn or one short of the end by scoreless turns
InitPlay ==
    /\ runs = << >>
    /\ frames = [t \in Threads |-> << >>]
    /\ ret = [t \in Threads |-> NoRet]
    /\ initialMoves = [t \in Threads |-> << >>]
    /\ currentIDDepths = [t \in Threads |-> 0]
    /\ ttable = ResetTable
    /\ solver = NewSolver(1, FALSE, TRUE, 0, 1)
    /\ ctx = [t \in Threads |-> FALSE]
    /\ probe = NoProbe
    /\ access = NoAccess
    /\ \E board \in {b \in StartBoards : b[0] = 0},
          rp \in StartRackPairs,
          bag \in {<< >>, <<2>>, <<1, 2>>},
          scoreless \in {0, MaxScorelessTurns - 1} :
          game = [t \in Threads |->
                    [NewGame(board, [p \in Players |-> rp[p + 1]],
                             [p \in Players |-> 0], 0, scoreless)
                       EXCEPT !.bag = bag,
                              !.maxScorelessTurns = MaxScorelessTurns]]
    /\ peg = [pc |-> "play", before |-> << >>, m |-> PassMove(EmptyRack),
              restore |-> NoGame]

\* PlayMove(m, true) of a move of the player on turn: a play, the pass or
\* an exchange
PlayStep ==
    /\ peg.pc \in {"play", "played", "unplayed"}
    /\ game[0].playing
    /\ StackPtr(game[0]) < MaxStackDepth
    /\ \E m \in GenAll(game[0]) \cup Exchanges(game[0]) :
          LET g1 == PlayMove(game[0], m, TRUE)
          IN /\ \E bag \in IF m.action = MoveTypeExchange
                           THEN BagOrders(g1.bag) ELSE {g1.bag} :
                   game' = [game EXCEPT ![0] = [g1 EXCEPT !.bag = bag]]
             /\ peg' = [peg EXCEPT !.pc = "played",
                                   !.before = Append(@, game[0]),
                                   !.m = m]
    /\ UNCHANGED <<runs, frames, ret, initialMoves, currentIDDepths, ttable,
                   solver, ctx, probe, access>>

\* UnplayLastMove
UnplayStep ==
    /\ peg.pc \in {"played", "unplayed"}
    /\ StackPtr(game[0]) > 0
    /\ game' = [game EXCEPT ![0] = UnplayLastMove(game[0])]
    /\ peg' = [peg EXCEPT !.pc = "unplayed",
                          !.before = SubSeq(@, 1, Len(@) - 1),
                          !.restore = peg.before[Len(peg.before)]]
    /\ UNCHANGED <<runs, frames, ret, initialMoves, currentIDDepths, ttable,
                   solver, ctx, probe, access>>

NextPlay == PlayStep \/ UnplayStep

SpecPlay == InitPlay /\ [][NextPlay]_vars

\* C27: after PlayMove with backup of a play, a pass or an exchange, also
\* of a move that ends the game, UnplayLastMove leaves the player on turn,
\* the turn number, the board, the bag, the racks, the points, the playing
\* flag, the count of scoreless turns and the stack pointer as they were
\* before the move
PlayUnplayRestores ==
    peg.pc = "unplayed" =>
       LET g == game[0]
           g0 == peg.restore
       IN /\ g.onturn = g0.onturn
          /\ g.turnnum = g0.turnnum
          /\ g.board = g0.board
          /\ g.bag = g0.bag
          /\ g.racks = g0.racks
          /\ g.points = g0.points
          /\ g.playing = g0.playing
          /\ g.scorelessTurns = g0.scorelessTurns
          /\ StackPtr(g) = StackPtr(g0)

\* the undo of an exchange of two tiles that was the sixth scoreless turn
\* and took the rack values off the points
PlayUnplayRestoresWitness ==
    /\ peg.pc = "unplayed"
    /\ peg.m.action = MoveTypeExchange
    /\ TilesPlayed(peg.m) = 2
    /\ peg.restore.scorelessTurns = MaxScorelessTurns - 1
    /\ game[0].playing
    /\ Len(game[0].bag) = 2

InitJoin ==
    /\ runs = << >>
    /\ \E g \in {x \in StartStates :
                    /\ x.scorelessTurns = 0
                    /\ x.points[1] = 0
                    /\ x.racks[0] = RackOf(<<2, 2>>)
                    /\ x.board[0] = 0
                    /\ x.board[2] = 0} :
          game = [t \in Threads |-> g]
    /\ solver = NewSolver(MaxThreads, TRUE, TRUE, MinLazySMPPlies + 1, 1)
    /\ frames = [t \in Threads |-> << >>]
    /\ ret = [t \in Threads |-> NoRet]
    /\ initialMoves = [t \in Threads |-> << >>]
    /\ currentIDDepths = [t \in Threads |-> 0]
    /\ ttable = ResetTable
    /\ ctx = [t \in Threads |-> FALSE]
    /\ probe = NoProbe
    /\ access = NoAccess
    /\ peg = NoPeg

NextJoin ==
    \/ SolveStartSMP \/ FirstBegin \/ FirstDone \/ Spawn \/ MainBegin \/ MainEnd \/ Join
    \/ \E t \in Threads : Descend(t) \/ Finish(t) \/ HelperBegin(t) \/ HelperEnd(t)

SpecJoin == InitJoin /\ [][NextJoin]_vars

\* C29: a helper is started or running only between the start of the
\* helpers of an iteration and the g.Wait of that iteration, at the depth
\* of that iteration; when the helpers of the next iteration are started,
\* and when iterativelyDeepenLazySMP returns, every helper has ended and
\* no search of a helper is left on its game copy
HelpersJoined ==
    /\ [](\A t \in Helpers :
             /\ solver.helpers[t] \in {"spawned", "running"} =>
                   /\ solver.pc \in {"spawned", "search", "wait"}
                   /\ currentIDDepths[t] = HelperDepth(solver.p, t)
             /\ frames[t] # << >> => solver.helpers[t] = "running")
    /\ [][/\ (solver.pc = "iter" /\ solver'.pc = "spawned") =>
                \A t \in Helpers :
                   /\ solver.helpers[t] \in {"idle", "done"}
                   /\ frames[t] = << >>
          /\ (solver.pc # "done" /\ solver'.pc = "done") =>
                \A t \in Helpers :
                   /\ solver.helpers[t] = "done"
                   /\ frames[t] = << >>]_vars

\* the helper of the second iteration in its search, four plies deep
HelpersJoinedWitness ==
    /\ solver.p = MinLazySMPPlies + 1
    /\ solver.pc = "wait"
    /\ solver.helpers[1] = "running"
    /\ Len(frames[1]) >= 2
    /\ currentIDDepths[1] = MinLazySMPPlies + 2

(***************************************************************************)
(* The reordering of its root moves by a helper of Lazy SMP once its       *)
(* search has returned.  The solver has ReorderThreads threads, so that    *)
(* initialMoves holds that many lists; a root move stands in the lists as  *)
(* its estimated value.  peg holds the place of the helper in the step:    *)
(* the count n of the Shuffle under way, the place i of its loop, and the  *)
(* offset off its swap function adds.                                      *)
(***************************************************************************)
ReorderThreads == 9

MaxRootMoves == 4

\* the root moves, copied from the list of the main thread
RootList(n) == [i \in 1..n |-> i]

\* sort.Slice by EstimatedValue, from most to least
SortByEstimate(list) ==
    LET RECURSIVE Order(_)
        Order(S) == IF S = {} THEN << >>
                    ELSE LET x == CHOOSE i \in S : \A k \in S : list[i] >= list[k]
                         IN <<list[x]>> \o Order(S \ {x})
    IN Order(DOMAIN list)

\* frand.Shuffle(n, swap) is called: it fails for a negative n, and its
\* loop runs from place n - 1 down to place 1
CallShuffle(n, off, second) ==
    [peg EXCEPT !.pc = IF n < 0 THEN "panic" ELSE "shuffle",
                !.n = n, !.off = off, !.i = n - 1, !.second = second]

\* helpers 1 to ReorderThreads - 1 with one to MaxRootMoves root moves,
\* and the helpers after the seventh also with as many as there are threads
InitReorder ==
    /\ runs = << >>
    /\ game = [t \in Threads |-> NoGame]
    /\ frames = [t \in Threads |-> << >>]
    /\ ret = [t \in Threads |-> NoRet]
    /\ currentIDDepths = [t \in Threads |-> 0]
    /\ ttable = ResetTable
    /\ solver = NewSolver(ReorderThreads, TRUE, TRUE, MinLazySMPPlies, 1)
    /\ ctx = [t \in Threads |-> FALSE]
    /\ probe = NoProbe
    /\ access = NoAccess
    /\ \E t \in 1..(ReorderThreads - 1),
          n \in (1..MaxRootMoves) \cup {ReorderThreads} :
          /\ n > MaxRootMoves => t > 7
          /\ initialMoves = [u \in 0..(ReorderThreads - 1) |-> RootList(n)]
          /\ peg = [pc |-> "reorder", t |-> t, atCall |-> RootList(n),
                    n |-> 0, off |-> 0, i |-> 0, second |-> FALSE]

\* the search of helper t has returned: the sort of helper 1, nothing for
\* helper 2, the shuffle of helpers 3 to 7, and the first of the two
\* shuffles of the helpers after the seventh
HelperReorder ==
    /\ peg.pc = "reorder"
    /\ LET t == peg.t
           list == initialMoves[t]
       IN IF t = 1
          THEN /\ initialMoves' = [initialMoves EXCEPT ![t] = SortByEstimate(list)]
               /\ peg' = [peg EXCEPT !.pc = "reordered"]
          ELSE IF t = 2
          THEN /\ peg' = [peg EXCEPT !.pc = "reordered"]
               /\ UNCHANGED initialMoves
          ELSE IF t > 2 /\ t <= 7
          THEN /\ peg' = CallShuffle(Len(list), 0, FALSE)
               /\ UNCHANGED initialMoves
          ELSE /\ peg' = CallShuffle(Len(list) \div 3, 0, TRUE)
               /\ UNCHANGED initialMoves
    /\ UNCHANGED <<runs, game, frames, ret, currentIDDepths, ttable, solver, ctx,
                   probe, access>>

\* one turn of the loop of Shuffle: swap(i, j) for some j up to i; the swap
\* fails if a place is outside the list
ShuffleSwap ==
    /\ peg.pc = "shuffle"
    /\ peg.i > 0
    /\ \E j \in 0..peg.i :
          LET list == initialMoves[peg.t]
              a == peg.i + peg.off + 1
              b == j + peg.off + 1
          IN IF a > Len(list) \/ b > Len(list)
             THEN /\ peg' = [peg EXCEPT !.pc = "panic"]
                  /\ UNCHANGED initialMoves
             ELSE /\ initialMoves' = [initialMoves EXCEPT ![peg.t] =
                        [list EXCEPT ![a] = list[b], ![b] = list[a]]]
                  /\ peg' = [peg EXCEPT !.i = @ - 1]
    /\ UNCHANGED <<runs, game, frames, ret, currentIDDepths, ttable, solver, ctx,
                   probe, access>>

\* Shuffle returns; after the shuffle of the first topfew moves the second
\* one is called, with len(s.initialMoves) - topfew for its count
ShuffleReturn ==
    /\ peg.pc = "shuffle"
    /\ peg.i <= 0
    /\ peg' = IF peg.second
              THEN CallShuffle(Cardinality(DOMAIN initialMoves) - peg.n, peg.n,
                               FALSE)
              ELSE [peg EXCEPT !.pc = "reordered"]
    /\ UNCHANGED <<runs, game, frames, ret, initialMoves, currentIDDepths, ttable,
                   solver, ctx, probe, access>>

NextReorder == HelperReorder \/ ShuffleSwap \/ ShuffleReturn

SpecReorder == InitReorder /\ [][NextReorder]_vars

\* C30: the reordering of a helper does not fail, whatever its index and
\* the number of root moves; it leaves the helper's list a permutation of
\* the moves it held and the other lists as they were; and for a helper
\* after the seventh the first third of the list holds the moves it held
\* before
ReorderCompletes ==
    /\ peg.pc # "panic"
    /\ peg.pc = "reordered" =>
          LET list == initialMoves[peg.t]
              topfew == Len(peg.atCall) \div 3
          IN /\ Len(list) = Len(peg.atCall)
             /\ \A x \in 1..Len(list) :
                   Cardinality({i \in DOMAIN list : list[i] = x}) = 1
             /\ \A u \in DOMAIN initialMoves :
                   u # peg.t => initialMoves[u] = peg.atCall
             /\ peg.t > 7 =>
                   {list[i] : i \in 1..topfew} = {peg.atCall[i] : i \in 1..topfew}

(***************************************************************************)
(* The undo stack of a search thread.  Solve gives the game a state stack  *)
(* of plies + 2 entries before the search; a play with backup writes the   *)
(* entry at the stack pointer and then advances the pointer.               *)
(***************************************************************************)
\* a state stack with no room for the deeper searches of the helpers
StateStackLengthNoSpare(plies) == plies

\* s.game.SetStateStackLength(plies + 2)
StateStackLength(plies) == plies + 2

\* the entries of the state stack thread t has in use: its backed-up plays
\* and, if its top call is about to play a child, the entry that play writes
BackupsInUse(t) ==
    StackPtr(game[t])
       + (IF frames[t] # << >> /\ Top(frames[t]).pc = "loop" THEN 1 ELSE 0)

PVHasLegalMove ==
    /\ \A t \in Threads : \A i \in DOMAIN frames[t] :
          LET f == frames[t][i]
          IN /\ f.depth >= 1
             /\ f.entry.playing
             /\ f.pc = "store" => f.pv.moves # << >>
             /\ f.pv.moves # << >> => f.pv.moves[1] \in GenAll(f.entry)
    /\ (probe.hit /\ probe.depth >= 1 /\ probe.g.playing) =>
          /\ CanRebuild(probe.entry.play, probe.g, probe.g.racks[probe.g.onturn])
          /\ TinyMoveToFullMove(probe.entry.play, probe.g,
                                probe.g.racks[probe.g.onturn]) \in GenAll(probe.g)
    /\ \A t \in Threads :
          (ret[t].set /\ ~ret[t].err /\ game[t].playing /\ currentIDDepths[t] >= 1) =>
             /\ ret[t].pv.moves # << >>
             /\ ret[t].pv.moves[1] \in GenAll(game[t])

\* the root call of the main thread has returned from a cutoff at the
\* table, without a search of its children: its PV is the move of the entry
PVHasLegalMoveWitness ==
    /\ ret[0].set
    /\ ~ret[0].err
    /\ probe.hit
    /\ probe.thread = 0
    /\ probe.depth = currentIDDepths[0]
    /\ probe.depth >= 2
    /\ frames[0] = << >>
    /\ Len(ret[0].pv.moves) = 1
    /\ ret[0].pv.moves[1] \in GenAll(game[0])

\* PVLine.Moves is an array of MaxVariantLength entries
MaxVariantLength == 25

\* C33: the PV of a negamax call of depth d holds at most d moves: the PV a
\* call in progress holds, the PV the root call returns, and the PV the
\* solver keeps; a probe of the table at depth 0 leaves the PV empty
PVWithinDepth ==
    /\ \A t \in Threads :
          /\ \A i \in DOMAIN frames[t] :
                Len(frames[t][i].pv.moves) <= frames[t][i].depth
          /\ (ret[t].set /\ ~ret[t].err) =>
                Len(ret[t].pv.moves) <= currentIDDepths[t]
    /\ Len(solver.principalVariation.moves) <= solver.completed
    /\ Len(solver.principalVariation.moves) <= MaxVariantLength

\* C34: the winner channel is closed, and the driver returns, only after
\* every worker has returned and the goroutine at the winner channel has
\* taken the last play sent and is done with it (winnerSoFar and
\* minPotentialLosses cover every play that was sent); a play is sent only
\* while the jobs run, by a worker in its loop over the options; and a play
\* that waits in the winner channel is always taken from it
WinnerChannelDrained ==
    /\ [](peg.pc = "pegdone" =>
            /\ \A t \in DOMAIN peg.w : peg.w[t].pc = "exited"
            /\ peg.winnerChan = << >>
            /\ peg.potentialWinnerMutex = "free"
            /\ \A i \in DOMAIN peg.plays :
                  LET pl == peg.plays[i]
                  IN (/\ TilesPlayed(pl.Play) >= peg.numinbag
                      /\ pl.reached # << >>)
                        => /\ peg.winnerSoFar # << >>
                           /\ peg.winnerSoFar[1].Points >= pl.Points
                           /\ peg.minPotentialLosses
                                 <= 2 * peg.numCombos - pl.Points)
    /\ [][(peg'.winnerChan # << >> /\ peg'.winnerChan # peg.winnerChan)
            => /\ peg'.pc = "jobs"
               /\ peg.winnerChan = << >>
               /\ \E t \in DOMAIN peg.w : peg.w[t].pc = "options"]_vars
    /\ (peg.winnerChan # << >>) ~> (peg.winnerChan = << >>)

\* two workers have sent plays, and the driver has returned
WinnerChannelDrainedWitness ==
    /\ peg.pc = "pegdone"
    /\ peg.threads = 2
    /\ peg.winnerSoFar # << >>
    /\ \E i, j \in DOMAIN peg.plays :
          /\ i # j
          /\ peg.plays[i].reached # << >>
          /\ peg.plays[j].reached # << >>
          /\ TilesPlayed(peg.plays[i].Play) >= peg.numinbag
          /\ TilesPlayed(peg.plays[j].Play) >= peg.numinbag

\* C35: when handleJobGeneric returns for a job, with or without an error,
\* every move it played on the game of its thread has been unplayed: the
\* stack pointer is 0 and the board, the points, the player on turn and
\* the playing flag are as they were when the job was taken
JobLeavesGameAsFound ==
    [][\A t \in DOMAIN peg.w :
          (peg.w[t].pc = "options" /\ peg'.w[t].pc = "idle")
             => /\ StackPtr(game'[t]) = 0
                /\ game'[t].board = game[t].board
                /\ game'[t].points = game[t].points
                /\ game'[t].onturn = game[t].onturn
                /\ game'[t].playing = game[t].playing]_vars

(***************************************************************************)
(* ResetToFirstState.  Here peg holds the array stateStack of the game as  *)
(* SetStateStackLength and backupState fill it, entries above the stack    *)
(* pointer included, and the game that undoing every move on the stack     *)
(* gives.                                                                  *)
(***************************************************************************)
\* XWordGame.SetStateStackLength: l entries holding the board, the bag, the
\* playing flag, the scoreless turns and the players of the game as it is
\* now; onturn is not set and is 0
SetStateStackLength(g, l) == [i \in 1..l |-> [Backup(g) EXCEPT !.onturn = 0]]

\* XWordGame.ResetToFirstState, with the array slots of the game
ResetToFirstState(g, slots) ==
    LET b == slots[1]
    IN [g EXCEPT
           !.onturn = b.onturn,
           !.turnnum = @ - StackPtr(g),
           !.stateStack = << >>,
           !.board = b.board,
           !.bag = b.bag,
           !.playing = b.playing,
           !.racks = b.racks,
           !.points = b.points,
           !.scorelessTurns = b.scorelessTurns,
           !.lastScorelessTurns = b.lastScorelessTurns]

\* games with one tile on the board and either player on turn, no stack yet
InitReset ==
    /\ runs = << >>
    /\ frames = [t \in Threads |-> << >>]
    /\ ret = [t \in Threads |-> NoRet]
    /\ initialMoves = [t \in Threads |-> << >>]
    /\ currentIDDepths = [t \in Threads |-> 0]
    /\ ttable = ResetTable
    /\ solver = NewSolver(1, FALSE, TRUE, 0, 1)
    /\ ctx = [t \in Threads |-> FALSE]
    /\ probe = NoProbe
    /\ access = NoAccess
    /\ \E board \in {b \in StartBoards : b[0] = 0 /\ b[2] = 0},
          rp \in StartRackPairs, onturn \in Players :
          game = [t \in Threads |->
                    NewGame(board, [p \in Players |-> rp[p + 1]],
                            [p \in Players |-> 0], onturn, 0)]
    /\ peg = [pc |-> "new", slots |-> << >>, expected |-> NoGame]

\* SetStateStackLength(MaxStackDepth), called once, before the first move
\* with a backup
SetStateStackLengthStep ==
    /\ peg.slots = << >>
    /\ peg' = [peg EXCEPT !.pc = "sized",
                          !.slots = SetStateStackLength(game[0], MaxStackDepth)]
    /\ UNCHANGED <<runs, game, frames, ret, initialMoves, currentIDDepths, ttable,
                   solver, ctx, probe, access>>

\* PlayMove(m, backup): with a backup the entry at the stack pointer is
\* filled (backupState); moves without a backup are played while no move
\* is on the stack
PlayMoveStep ==
    /\ peg.pc # "reset"
    /\ game[0].playing
    /\ \E m \in GenAll(game[0]), backup \in BOOLEAN :
          /\ IF backup THEN StackPtr(game[0]) < Len(peg.slots)
                       ELSE StackPtr(game[0]) = 0
          /\ game' = [game EXCEPT ![0] = PlayMove(game[0], m, backup)]
          /\ peg' = [peg EXCEPT
                !.pc = "played",
                !.slots = IF backup
                          THEN [@ EXCEPT ![StackPtr(game[0]) + 1] = Backup(game[0])]
                          ELSE @]
    /\ UNCHANGED <<runs, frames, ret, initialMoves, currentIDDepths, ttable,
                   solver, ctx, probe, access>>

\* UnplayLastMove: the array keeps its entries
UnplayLastMoveStep ==
    /\ peg.pc # "reset"
    /\ StackPtr(game[0]) > 0
    /\ game' = [game EXCEPT ![0] = UnplayLastMove(game[0])]
    /\ peg' = [peg EXCEPT !.pc = "unplayed"]
    /\ UNCHANGED <<runs, frames, ret, initialMoves, currentIDDepths, ttable,
                   solver, ctx, probe, access>>

\* ResetToFirstState on a game whose array has an entry 0 (with an array
\* of length 0 the read of stateStack[0] ends the program); expected is
\* the game after one UnplayLastMove for each move on the stack.  The run
\* is followed up to the reset
ResetToFirstStateStep ==
    /\ Len(peg.slots) > 0
    /\ peg.pc # "reset"
    /\ LET RECURSIVE UnplayAll(_)
           UnplayAll(g) == IF StackPtr(g) = 0 THEN g
                           ELSE UnplayAll(UnplayLastMove(g))
       IN peg' = [peg EXCEPT !.pc = "reset",
                             !.expected = UnplayAll(game[0])]
    /\ game' = [game EXCEPT ![0] = ResetToFirstState(game[0], peg.slots)]
    /\ UNCHANGED <<runs, frames, ret, initialMoves, currentIDDepths, ttable,
                   solver, ctx, probe, access>>

NextReset ==
    \/ SetStateStackLengthStep
    \/ PlayMoveStep
    \/ UnplayLastMoveStep
    \/ ResetToFirstStateStep

SpecReset == InitReset /\ [][NextReset]_vars

\* C36: ResetToFirstState leaves the game as one UnplayLastMove for each
\* move on the stack does, at every stack height, 0 included: stack
\* pointer 0, and the same player on turn, turn number, board, bag, racks,
\* points, playing flag and count of scoreless turns
ResetIsUnplayAll ==
    peg.pc = "reset" =>
       LET g == game[0]
           e == peg.expected
       IN /\ StackPtr(g) = 0
          /\ g.onturn = e.onturn
          /\ g.turnnum = e.turnnum
          /\ g.board = e.board
          /\ g.bag = e.bag
          /\ g.racks = e.racks
          /\ g.points = e.points
          /\ g.playing = e.playing
          /\ g.scorelessTurns = e.scorelessTurns

\* C37: Solve always returns: on every path of its search goroutine the
\* goroutine that reports the node rate is sent the value on done, so the
\* wait for the two goroutines ends and Solve is never blocked in it
SolveNeverBlocked == solver.pc # "blocked"

(***************************************************************************)
(* The indices into the rack key tables.  Here peg holds the (letter,      *)
(* count) pairs the last call of Hash or AddMove indexed maxRackTable or   *)
(* minRackTable with.                                                      *)
(***************************************************************************)
\* Zobrist.Hash: for i, ct := range rack.LetArr, the table is read at [i][ct]
HashRackIndices(rack) == {<<i, rack[i]>> : i \in DOMAIN rack}

RECURSIVE PlayRackIndices(_, _, _)
\* the loop of AddMove that "plays" the tiles of the move off the
\* placeholder rack, from tile number i on: the table is read at
\* [tileIdx][placeholderRack[tileIdx]] before and after the decrement
PlayRackIndices(tiles, i, placeholderRack) ==
    IF i > Len(tiles) THEN {}
    ELSE IF tiles[i] = 0 THEN PlayRackIndices(tiles, i + 1, placeholderRack)
    ELSE LET tileIdx == tiles[i]
             ct == placeholderRack[tileIdx]
         IN {<<tileIdx, ct>>, <<tileIdx, ct - 1>>}
               \cup PlayRackIndices(tiles, i + 1,
                                    [placeholderRack EXCEPT ![tileIdx] = ct - 1])

\* Zobrist.AddMove: the placeholder rack is the tiles of the move and the
\* leave
AddMoveRackIndices(m) ==
    IF m.action = MoveTypePlay
    THEN PlayRackIndices(m.tiles, 1, AddRack(RackOf(m.tiles), m.leave))
    ELSE {}

\* positions with one tile on the board in which the player on turn holds
\* any rack of one to RackTileLimit tiles
InitRackKeys ==
    /\ runs = << >>
    /\ frames = [t \in Threads |-> << >>]
    /\ ret = [t \in Threads |-> NoRet]
    /\ initialMoves = [t \in Threads |-> << >>]
    /\ currentIDDepths = [t \in Threads |-> 0]
    /\ ttable = ResetTable
    /\ solver = NewSolver(1, FALSE, TRUE, 0, 1)
    /\ ctx = [t \in Threads |-> FALSE]
    /\ probe = NoProbe
    /\ access = NoAccess
    /\ \E board \in {b \in StartBoards : b[0] = 0 /\ b[2] = 0},
          rack \in {r \in [0..NumLetters -> 0..RackTileLimit] :
                       /\ r[0] = 0
                       /\ NumTiles(r) \in 1..RackTileLimit} :
          game = [t \in Threads |->
                    NewGame(board,
                            [p \in Players |-> IF p = 0 THEN rack
                                               ELSE RackOf(<<1, 2>>)],
                            [p \in Players |-> 0], 0, 0)]
    /\ peg = [pc |-> "position", used |-> {}]

\* Hash of the position, with the racks of both players
HashStep ==
    /\ peg.pc # "hashed"
    /\ peg' = [pc |-> "hashed",
               used |-> HashRackIndices(game[0].racks[0])
                           \cup HashRackIndices(game[0].racks[1])]
    /\ UNCHANGED <<runs, game, frames, ret, initialMoves, currentIDDepths, ttable,
                   solver, ctx, probe, access>>

\* AddMove of a legal move of the player on turn, and the move
AddMoveStep ==
    /\ game[0].playing
    /\ \E m \in GenAll(game[0]) :
          /\ peg' = [pc |-> "added", used |-> AddMoveRackIndices(m)]
          /\ game' = [game EXCEPT ![0] = PlayMove(game[0], m, FALSE)]
    /\ UNCHANGED <<runs, frames, ret, initialMoves, currentIDDepths, ttable,
                   solver, ctx, probe, access>>

NextRackKeys == HashStep \/ AddMoveStep

SpecRackKeys == InitRackKeys /\ [][NextRackKeys]_vars

\* C38: every (letter, count) index that Hash and AddMove use into the
\* rack key tables lies inside the table, which has a row for every letter
\* and RackTileLimit entries in a row, for every rack of at most
\* RackTileLimit tiles and every legal move
RackKeyIndexInTable ==
    \A x \in peg.used :
       /\ x[1] \in 0..NumLetters
       /\ x[2] \in 0..(RackTileLimit - 1)

(***************************************************************************)
(* The filter of the plays of a bot.  A play is its action and what the    *)
(* checks of a tile placement give for it: FormedWords fails               *)
(* ("wordserror"), or the filter function allows it, refuses it, or        *)
(* returns an error.  Here peg holds the plays, whether the bot type has   *)
(* a configuration, and what filter returned: the place of a play in       *)
(* plays, or 0 for the pass.                                               *)
(***************************************************************************)
\* the most plays handed to filter
MaxFilterPlays == 3

FilterVerdicts == {"allowed", "refused", "error", "wordserror"}

RECURSIVE FilterLoop(_, _)
\* the loop of filter over the plays, from place i on
FilterLoop(plays, i) ==
    IF i > Len(plays) THEN 0
    ELSE LET play == plays[i]
             isPlay == play.action = MoveTypePlay
             \* var err error; mws, err = g.Board().FormedWords(play);
             \* allowed, err = filterFunction(mws)
             err == IF ~isPlay THEN "nil"
                    ELSE IF play.verdict = "wordserror" THEN "formed-words"
                    ELSE IF play.verdict = "error" THEN "filter"
                    ELSE "nil"
             allowed == IF isPlay THEN play.verdict = "allowed" ELSE TRUE
             \* if err != nil { ...; break }, after either check
             broke == isPlay /\ err # "nil"
         IN IF broke THEN 0
            \* if allowed && err != nil { return play }
            ELSE IF allowed /\ err # "nil" THEN i
            ELSE FilterLoop(plays, i + 1)

\* filter: with a configuration for the bot type the loop over the plays,
\* without one the first play, or the pass when there is no play
filter(plays, botConfigExists) ==
    IF botConfigExists THEN FilterLoop(plays, 1)
    ELSE IF Len(plays) > 0 THEN 1 ELSE 0

\* any list of at most MaxFilterPlays plays, tile placements and others
InitFilter ==
    /\ runs = << >>
    /\ frames = [t \in Threads |-> << >>]
    /\ ret = [t \in Threads |-> NoRet]
    /\ initialMoves = [t \in Threads |-> << >>]
    /\ currentIDDepths = [t \in Threads |-> 0]
    /\ ttable = ResetTable
    /\ solver = NewSolver(1, FALSE, TRUE, 0, 1)
    /\ ctx = [t \in Threads |-> FALSE]
    /\ probe = NoProbe
    /\ access = NoAccess
    /\ game = [t \in Threads |-> NoGame]
    /\ \E n \in 0..MaxFilterPlays, botConfigExists \in BOOLEAN :
          \E plays \in [1..n -> [action : {MoveTypePlay, MoveTypeExchange},
                                 verdict : FilterVerdicts]] :
             peg = [pc |-> "plays", plays |-> plays,
                    botConfigExists |-> botConfigExists, result |-> 0]

\* a call of filter
FilterStep ==
    /\ peg.pc = "plays"
    /\ peg' = [peg EXCEPT !.pc = "filtered",
                          !.result = filter(peg.plays, peg.botConfigExists)]
    /\ UNCHANGED <<runs, game, frames, ret, initialMoves, currentIDDepths, ttable,
                   solver, ctx, probe, access>>

NextFilter == FilterStep

SpecFilter == InitFilter /\ [][NextFilter]_vars

\* C39: for a bot type with a configuration filter returns the first play,
\* in the order given, that the filter function allows, a play that is
\* not a tile placement counting as allowed; it returns the pass only when
\* no play is allowed or a check of an earlier play reports an error
FilterReturnsFirstAllowed ==
    (peg.pc = "filtered" /\ peg.botConfigExists) =>
       LET plays == peg.plays
           Allowed(i) == \/ plays[i].action # MoveTypePlay
                         \/ plays[i].verdict = "allowed"
           Failed(i) == /\ plays[i].action = MoveTypePlay
                        /\ plays[i].verdict \in {"error", "wordserror"}
           firsts == {i \in DOMAIN plays :
                         /\ Allowed(i)
                         /\ \A k \in 1..(i - 1) : ~Allowed(k) /\ ~Failed(k)}
       IN IF firsts = {} THEN peg.result = 0
          ELSE peg.result \in firsts

(***************************************************************************)
(* The GCG parser.  A line is the token of the first regular expression    *)
(* it matches ("NoMatch" for a line that matches none, "Blank" for such a  *)
(* line of white space), the player number and the nickname of a player    *)
(* line, and whether its numbers convert (matchToInt32) and its racks      *)
(* agree.  The history is its players, its turns (the events of a turn,    *)
(* each with its type and the pieces of its note), the header fields set   *)
(* and the number of known racks.  Here peg holds the parser: the history, *)
(* lastToken, the line parsed last, the history before that line, and how  *)
(* the parse ended ("panic" for an index out of range).                    *)
(***************************************************************************)
\* the most lines of a file
MaxLines == 3

HeaderTokens ==
    {"PlayerToken", "TitleToken", "DescriptionToken", "IDToken", "LexiconToken"}

TurnTokens ==
    {"MoveToken", "PassToken", "ExchangeToken", "TimePenaltyToken",
     "LastRackPenaltyToken"}

AddedEventTokens ==
    {"PhonyTilesReturnedToken", "ChallengeBonusToken", "EndRackPointsToken"}

GCGTokens ==
    HeaderTokens \cup TurnTokens \cup AddedEventTokens
       \cup {"Rack1Token", "Rack2Token", "EncodingToken", "NoteToken"}

\* p.history.Turns[lastTurnIdx].Events[lastEvtIdx].Note += ..., for a
\* history with a turn
AppendNote(h) ==
    LET t == Len(h.Turns)
        e == Len(h.Turns[t])
    IN [h EXCEPT !.Turns[t][e].Note = @ + 1]

\* parser.addEventOrPragma on the history h: the history after, the error
\* returned, and whether an index was out of range
addEventOrPragma(h, line) ==
    LET token == line.token
        Ok(h1) == [history |-> h1, err |-> "nil", panic |-> FALSE]
        Err(e) == [history |-> h, err |-> e, panic |-> FALSE]
        Panic == [history |-> h, err |-> "nil", panic |-> TRUE]
        evt == [Type |-> token, Note |-> 0]
    IN IF token = "PlayerToken"
       THEN IF Len(h.Turns) > 0 THEN Err("errPragmaPrecedeEvent")
            ELSE IF line.pn = 2 /\ Len(h.Players) = 0 THEN Panic
            ELSE IF line.pn = 2 /\ line.nick = h.Players[1]
                 THEN Err("errDuplicateNames")
            ELSE Ok([h EXCEPT !.Players = Append(@, line.nick)])
       ELSE IF token \in HeaderTokens
       THEN IF Len(h.Turns) > 0 THEN Err("errPragmaPrecedeEvent")
            ELSE Ok([h EXCEPT !.header = @ \cup {token}])
       ELSE IF token = "Rack1Token" THEN Ok([h EXCEPT !.LastKnownRacks = 1])
       ELSE IF token = "Rack2Token" THEN Ok([h EXCEPT !.LastKnownRacks = @ + 1])
       ELSE IF token = "EncodingToken" THEN Err("errEncodingWrongPlace")
       ELSE IF token \in TurnTokens
       THEN IF ~line.converts THEN Err("conversion")
            ELSE Ok([h EXCEPT !.Turns = Append(@, <<evt>>)])
       ELSE IF token = "NoteToken"
       THEN IF Len(h.Turns) = 0 THEN Panic
            ELSE Ok(AppendNote(h))
       ELSE \* PhonyTilesReturnedToken, ChallengeBonusToken, EndRackPointsToken
            IF ~line.converts THEN Err("conversion")
            ELSE IF Len(h.Turns) = 0 THEN Panic
            ELSE Ok([h EXCEPT !.Turns[Len(h.Turns)] = Append(@, evt)])

\* parser.parseLine: the parser after the line
parseLine(p, line) ==
    IF line.token \in GCGTokens
    THEN LET r == addEventOrPragma(p.history, line)
         IN IF r.panic THEN [p EXCEPT !.pc = "panic"]
            ELSE IF r.err # "nil" THEN [p EXCEPT !.pc = "error", !.err = r.err]
            ELSE [p EXCEPT !.history = r.history, !.lastToken = line.token]
    ELSE \* no match: maybe a note of more than one line
         IF p.lastToken = "NoteToken"
         THEN IF Len(p.history.Turns) = 0 THEN [p EXCEPT !.pc = "panic"]
              ELSE [p EXCEPT !.history = AppendNote(p.history)]
         ELSE IF line.token = "Blank" THEN p
         ELSE [p EXCEPT !.pc = "error", !.err = "no match"]

NoLine == [token |-> "none", pn |-> 1, nick |-> 1, converts |-> TRUE]

\* ParseGCGFromReader before the first line: a history with no turns and
\* no players
InitGCG ==
    /\ runs = << >>
    /\ frames = [t \in Threads |-> << >>]
    /\ ret = [t \in Threads |-> NoRet]
    /\ initialMoves = [t \in Threads |-> << >>]
    /\ currentIDDepths = [t \in Threads |-> 0]
    /\ ttable = ResetTable
    /\ solver = NewSolver(1, FALSE, TRUE, 0, 1)
    /\ ctx = [t \in Threads |-> FALSE]
    /\ probe = NoProbe
    /\ access = NoAccess
    /\ game = [t \in Threads |-> NoGame]
    /\ LET h == [Players |-> << >>, Turns |-> << >>, header |-> {},
                 LastKnownRacks |-> 0]
       IN peg = [pc |-> "lines", history |-> h, lastToken |-> "UndefinedToken",
                 err |-> "nil", lines |-> 0, line |-> NoLine, before |-> h]

\* the scanner hands the next line to parseLine
ParseLineStep ==
    /\ peg.pc = "lines"
    /\ peg.lines < MaxLines
    /\ \E token \in GCGTokens \cup {"NoMatch", "Blank"},
          pn \in 1..2, nick \in 1..2, converts \in BOOLEAN :
          LET line == [token |-> token,
                       pn |-> IF token = "PlayerToken" THEN pn ELSE 1,
                       nick |-> IF token = "PlayerToken" THEN nick ELSE 1,
                       converts |-> IF token \in TurnTokens \cup AddedEventTokens
                                    THEN converts ELSE TRUE]
          IN peg' = [parseLine(peg, line) EXCEPT
                        !.lines = @ + 1, !.line = line, !.before = peg.history]
    /\ UNCHANGED <<runs, game, frames, ret, initialMoves, currentIDDepths, ttable,
                   solver, ctx, probe, access>>

\* the scanner has no more lines: the history is returned
ParseEndStep ==
    /\ peg.pc = "lines"
    /\ peg' = [peg EXCEPT !.pc = "history"]
    /\ UNCHANGED <<runs, game, frames, ret, initialMoves, currentIDDepths, ttable,
                   solver, ctx, probe, access>>

NextGCG == ParseLineStep \/ ParseEndStep

SpecGCG == InitGCG /\ [][NextGCG]_vars

\* C40: parsing lines that are recognised never ends with an index out of
\* range; a header pragma after the first turn is refused with
\* errPragmaPrecedeEvent and leaves the history as it was; and a note, a
\* phony-tiles-returned, challenge-bonus or end-rack-points line before
\* any turn, and a player2 line before player1, are refused with an error
GCGEndsWithHistoryOrError ==
    LET h0 == peg.before
        line == peg.line
    IN /\ peg.pc # "panic"
       /\ (line.token \in HeaderTokens /\ Len(h0.Turns) > 0)
             => /\ peg.pc = "error"
                /\ peg.err = "errPragmaPrecedeEvent"
                /\ peg.history = h0
       /\ (\/ /\ line.token \in AddedEventTokens \cup {"NoteToken"}
               /\ Len(h0.Turns) = 0
            \/ /\ line.token = "PlayerToken"
               /\ line.pn = 2
               /\ Len(h0.Players) = 0)
             => peg.pc = "error"

\* the part of C40 on header pragmata alone
HeaderAfterTurnRefused ==
    (peg.line.token \in HeaderTokens /\ Len(peg.before.Turns) > 0)
       => /\ peg.pc = "error"
          /\ peg.err = "errPragmaPrecedeEvent"
          /\ peg.history = peg.before

====
